---- MODULE Spec2Model ----
(***************************************************************************)
(* A model of the storage and concurrency core of the BusTub engine:       *)
(* the buffer pool manager (with its LRU-K replacer and its extendible     *)
(* hash page table) and the lock manager.                                  *)
(***************************************************************************)
EXTENDS Integers, Sequences, FiniteSets, TLC

(***************************************************************************)
(* Bounds of the model and constants of the program.                       *)
(***************************************************************************)
\* number of frames of the pool (pool_size_)
PoolSize == 2
\* number of frames of the pool whose page contents are followed
DataPoolSize == 1
\* page ids the allocator may hand out: 0 .. MaxPages-1
MaxPages == 2
\* cap on a page's pin count
MaxPin == 2
\* cap on a replacer entry's access count
MaxAccess == 2
\* the replacer's k_
ReplacerK == 2
\* the page contents a caller may write: 0 .. MaxVal
MaxVal == 1
\* bucket_size_ of the page table
BucketSize == 4
\* width of std::hash's result that the model keeps (low bits only are used)
HashBits == 16

INVALID_PAGE_ID == -1
NoFrame == -1

\* page ids a caller may pass: allocated ones, ones never allocated, INVALID
PageIds == {INVALID_PAGE_ID} \cup (0 .. (MaxPages - 1))
ZeroData == 0
Vals == 0 .. MaxVal

Max(S) == CHOOSE x \in S : \A y \in S : y <= x
Min(S) == CHOOSE x \in S : \A y \in S : x <= y
Pow2(n) == 2 ^ n
RemoveAt(s, i) == SubSeq(s, 1, i - 1) \o SubSeq(s, i + 1, Len(s))
InsertAt(s, i, e) == SubSeq(s, 1, i - 1) \o <<e>> \o SubSeq(s, i, Len(s))
SeqToSet(s) == {s[i] : i \in 1 .. Len(s)}

(***************************************************************************)
(* Extendible hash table.  A table is a record                             *)
(*   [global_depth, num_buckets, dir, buckets]                             *)
(* dir[i+1] is the index (in buckets) of the bucket directory slot i       *)
(* points to; a bucket is [depth, list], list a sequence of <<k, v>>,      *)
(* front first.                                                            *)
(***************************************************************************)
\* std::hash<int> is the identity on the value converted to size_t
Hash(key) == key % Pow2(HashBits)

GetKLowBit(k, n) == n % Pow2(k)

TestKBit(k, n) == (n \div Pow2(k)) % 2 = 1

HT_New(bucket_size) ==
  [global_depth |-> 0, bucket_size |-> bucket_size, num_buckets |-> 1,
   dir |-> <<1>>, buckets |-> <<[depth |-> 0, list |-> <<>>]>>]

HT_IndexOf(ht, key) == Hash(key) % Pow2(ht.global_depth)

FindKeyPos(list, key) ==
  LET S == {i \in 1 .. Len(list) : list[i][1] = key}
  IN IF S = {} THEN 0 ELSE Min(S)

Bucket_IsFull(ht, b) == Len(b.list) >= ht.bucket_size

\* Bucket::Insert returns false exactly when the key is absent and the bucket full
Bucket_CanInsert(ht, b, key) == FindKeyPos(b.list, key) # 0 \/ ~Bucket_IsFull(ht, b)

\* Bucket::Insert that never looks for the key
Bucket_Insert_NoMatch(b, key, value) == [b EXCEPT !.list = <<<<key, value>>>> \o @]

Bucket_Insert(b, key, value) ==
  LET pos == FindKeyPos(b.list, key)
  IN IF pos = 0 THEN [b EXCEPT !.list = <<<<key, value>>>> \o @]
     ELSE [b EXCEPT !.list[pos] = <<key, value>>]

Bucket_Remove(b, key) ==
  LET pos == FindKeyPos(b.list, key)
  IN IF pos = 0 THEN b ELSE [b EXCEPT !.list = RemoveAt(@, pos)]

\* the records of list whose hash has bit depth set, moved one by one
\* (front to back) by emplace_front into the new bucket
RECURSIVE MoveSetBit(_, _, _)
MoveSetBit(list, depth, acc) ==
  IF list = <<>> THEN acc
  ELSE IF TestKBit(depth, Hash(Head(list)[1]))
       THEN MoveSetBit(Tail(list), depth, <<Head(list)>> \o acc)
       ELSE MoveSetBit(Tail(list), depth, acc)

KeepClearBit(list, depth) ==
  SelectSeq(list, LAMBDA kv : ~TestKBit(depth, Hash(kv[1])))

\* RedistributeBucket that hands every slot with the split bit set to the
\* new bucket, whatever the slot's low bits
HT_RedistributeBucket_AnySibling(ht, bi) ==
  LET bucket == ht.buckets[bi]
      depth == bucket.depth
      ni == Len(ht.buckets) + 1
      new_bucket == [depth |-> depth + 1, list |-> MoveSetBit(bucket.list, depth, <<>>)]
      old_bucket == [depth |-> depth + 1, list |-> KeepClearBit(bucket.list, depth)]
      new_dir == [i \in 1 .. Len(ht.dir) |->
                    IF TestKBit(depth, i - 1) THEN ni ELSE ht.dir[i]]
  IN [ht EXCEPT !.num_buckets = @ + 1,
                !.dir = new_dir,
                !.buckets = [@ EXCEPT ![bi] = old_bucket] \o <<new_bucket>>]

HT_RedistributeBucket(ht, bi) ==
  LET bucket == ht.buckets[bi]
      depth == bucket.depth
      lowbit == GetKLowBit(depth, Hash(bucket.list[1][1]))
      ni == Len(ht.buckets) + 1
      new_bucket == [depth |-> depth + 1, list |-> MoveSetBit(bucket.list, depth, <<>>)]
      old_bucket == [depth |-> depth + 1, list |-> KeepClearBit(bucket.list, depth)]
      new_dir == [i \in 1 .. Len(ht.dir) |->
                    IF TestKBit(depth, i - 1) /\ GetKLowBit(depth, i - 1) = lowbit
                    THEN ni ELSE ht.dir[i]]
  IN [ht EXCEPT !.num_buckets = @ + 1,
                !.dir = new_dir,
                !.buckets = [@ EXCEPT ![bi] = old_bucket] \o <<new_bucket>>]

\* Insert with "if" in place of "while": one split, one more try
HT_Insert_OneSplit(ht, key, value) ==
  LET bi == ht.dir[HT_IndexOf(ht, key) + 1]
      cur_bucket == ht.buckets[bi]
  IN IF Bucket_CanInsert(ht, cur_bucket, key)
     THEN [ht EXCEPT !.buckets[bi] = Bucket_Insert(cur_bucket, key, value)]
     ELSE LET cur_depth == cur_bucket.depth
              ht1 == IF ht.global_depth = cur_depth
                     THEN [ht EXCEPT !.dir = @ \o @, !.global_depth = @ + 1]
                     ELSE ht
              ht2 == IF ht1.global_depth > cur_depth
                     THEN HT_RedistributeBucket(ht1, bi)
                     ELSE ht1
              bj == ht2.dir[HT_IndexOf(ht2, key) + 1]
          IN IF Bucket_CanInsert(ht2, ht2.buckets[bj], key)
             THEN [ht2 EXCEPT !.buckets[bj] = Bucket_Insert(@, key, value)]
             ELSE ht2

RECURSIVE HT_Insert(_, _, _)
HT_Insert(ht, key, value) ==
  LET bi == ht.dir[HT_IndexOf(ht, key) + 1]
      cur_bucket == ht.buckets[bi]
  IN IF Bucket_CanInsert(ht, cur_bucket, key)
     THEN [ht EXCEPT !.buckets[bi] = Bucket_Insert(cur_bucket, key, value)]
     ELSE LET cur_depth == cur_bucket.depth
              ht1 == IF ht.global_depth = cur_depth
                     THEN [ht EXCEPT !.dir = @ \o @, !.global_depth = @ + 1]
                     ELSE ht
              ht2 == IF ht1.global_depth > cur_depth
                     THEN HT_RedistributeBucket(ht1, bi)
                     ELSE ht1
          IN HT_Insert(ht2, key, value)

HT_Contains(ht, key) ==
  FindKeyPos(ht.buckets[ht.dir[HT_IndexOf(ht, key) + 1]].list, key) # 0

\* the value Find stores through its reference when it returns true
HT_Find(ht, key) ==
  LET list == ht.buckets[ht.dir[HT_IndexOf(ht, key) + 1]].list
  IN list[FindKeyPos(list, key)][2]

\* Remove that leaves the record
HT_Remove_Keep(ht, key) == ht

HT_Remove(ht, key) ==
  LET bi == ht.dir[HT_IndexOf(ht, key) + 1]
  IN [ht EXCEPT !.buckets[bi] = Bucket_Remove(@, key)]

\* every key stored in the table
HT_Keys(ht) ==
  UNION {{ht.buckets[b].list[i][1] : i \in 1 .. Len(ht.buckets[b].list)} :
           b \in 1 .. Len(ht.buckets)}

(***************************************************************************)
(* LRU-K replacer.  A replacer is a record                                 *)
(*   [replacer_size, k, history_list, cache_list, curr_size]               *)
(* the lists hold entries [key_, cnt_, evictable_, is_in_history_list_],   *)
(* front first.  map_ holds one iterator per listed entry, so a frame is   *)
(* in map_ exactly when an entry of one of the lists has its key.          *)
(***************************************************************************)
LRU_New(num_frames, k) ==
  [replacer_size |-> num_frames, k |-> k,
   history_list |-> <<>>, cache_list |-> <<>>, curr_size |-> 0]

ListPos(list, frame_id) ==
  LET S == {i \in 1 .. Len(list) : list[i].key_ = frame_id}
  IN IF S = {} THEN 0 ELSE Min(S)

LRU_InMap(r, frame_id) ==
  ListPos(r.history_list, frame_id) # 0 \/ ListPos(r.cache_list, frame_id) # 0

LRU_Entry(r, frame_id) ==
  IF ListPos(r.history_list, frame_id) # 0
  THEN r.history_list[ListPos(r.history_list, frame_id)]
  ELSE r.cache_list[ListPos(r.cache_list, frame_id)]

LRU_IsFull(r) == r.curr_size >= r.replacer_size

\* a scan that starts at the front of the list
LastEvictable_FromFront(list) ==
  LET E == {i \in 1 .. Len(list) : list[i].evictable_}
  IN IF E = {} THEN 0 ELSE Min(E)

\* the loop "for (it = --list.end(); it != list.end(); it--)": from the back
\* of the list to its front, wrapping to end() after the first element (and
\* at once when the list is empty); the first evictable entry met, or 0
LastEvictable(list) ==
  LET S == {i \in 1 .. Len(list) : list[i].evictable_}
  IN IF S = {} THEN 0 ELSE Max(S)

\* Evict that scans the cache list before the history list
LRU_Evict_CacheFirst(r) ==
  LET h == LastEvictable(r.history_list)
      c == LastEvictable(r.cache_list)
  IN IF c # 0
     THEN [ok |-> TRUE, frame_id |-> r.cache_list[c].key_,
           r |-> [r EXCEPT !.cache_list = RemoveAt(@, c), !.curr_size = @ - 1]]
     ELSE IF h # 0
     THEN [ok |-> TRUE, frame_id |-> r.history_list[h].key_,
           r |-> [r EXCEPT !.history_list = RemoveAt(@, h), !.curr_size = @ - 1]]
     ELSE [ok |-> FALSE, frame_id |-> NoFrame, r |-> r]

\* [ok, frame_id, r]: Evict's result, the frame it stores, the replacer after
LRU_Evict(r) ==
  LET h == LastEvictable(r.history_list)
      c == LastEvictable(r.cache_list)
  IN IF h # 0
     THEN [ok |-> TRUE, frame_id |-> r.history_list[h].key_,
           r |-> [r EXCEPT !.history_list = RemoveAt(@, h), !.curr_size = @ - 1]]
     ELSE IF c # 0
     THEN [ok |-> TRUE, frame_id |-> r.cache_list[c].key_,
           r |-> [r EXCEPT !.cache_list = RemoveAt(@, c), !.curr_size = @ - 1]]
     ELSE [ok |-> FALSE, frame_id |-> NoFrame, r |-> r]

\* RecordAccess that returns at once whenever the replacer is full
LRU_RecordAccess_DropWhenFull(r, frame_id) ==
  IF LRU_IsFull(r) THEN r
  ELSE
    LET r1 == IF LRU_InMap(r, frame_id) THEN r
              ELSE [r EXCEPT !.history_list =
                      <<[key_ |-> frame_id, cnt_ |-> 0, evictable_ |-> FALSE,
                         is_in_history_list_ |-> TRUE]>> \o @]
        entry == LRU_Entry(r1, frame_id)
        counted == [entry EXCEPT !.cnt_ = @ + 1]
        hp == ListPos(r1.history_list, frame_id)
        cp == ListPos(r1.cache_list, frame_id)
    IN IF counted.cnt_ < r1.k
       THEN [r1 EXCEPT !.history_list[hp] = counted]
       ELSE LET new_entry == [counted EXCEPT !.is_in_history_list_ = FALSE]
            IN IF entry.is_in_history_list_
               THEN [r1 EXCEPT !.history_list = RemoveAt(@, hp),
                               !.cache_list = <<new_entry>> \o @]
               ELSE [r1 EXCEPT !.cache_list = <<new_entry>> \o RemoveAt(@, cp)]

LRU_RecordAccess(r, frame_id) ==
  IF ~LRU_InMap(r, frame_id) /\ LRU_IsFull(r) THEN r
  ELSE
    LET r1 == IF LRU_InMap(r, frame_id) THEN r
              ELSE [r EXCEPT !.history_list =
                      <<[key_ |-> frame_id, cnt_ |-> 0, evictable_ |-> FALSE,
                         is_in_history_list_ |-> TRUE]>> \o @]
        entry == LRU_Entry(r1, frame_id)
        counted == [entry EXCEPT !.cnt_ = @ + 1]
        hp == ListPos(r1.history_list, frame_id)
        cp == ListPos(r1.cache_list, frame_id)
    IN IF counted.cnt_ < r1.k
       THEN [r1 EXCEPT !.history_list[hp] = counted]
       ELSE LET new_entry == [counted EXCEPT !.is_in_history_list_ = FALSE]
            IN IF entry.is_in_history_list_
               THEN [r1 EXCEPT !.history_list = RemoveAt(@, hp),
                               !.cache_list = <<new_entry>> \o @]
               ELSE [r1 EXCEPT !.cache_list = <<new_entry>> \o RemoveAt(@, cp)]

\* SetEvictable that counts every call with set_evictable = true
LRU_SetEvictable_CountAlways(r, frame_id, set_evictable) ==
  IF ~LRU_InMap(r, frame_id) THEN r
  ELSE
    LET hp == ListPos(r.history_list, frame_id)
        cp == ListPos(r.cache_list, frame_id)
        size == IF set_evictable THEN r.curr_size + 1 ELSE r.curr_size - 1
    IN IF hp # 0
       THEN [r EXCEPT !.history_list[hp].evictable_ = set_evictable, !.curr_size = size]
       ELSE [r EXCEPT !.cache_list[cp].evictable_ = set_evictable, !.curr_size = size]

LRU_SetEvictable(r, frame_id, set_evictable) ==
  IF ~LRU_InMap(r, frame_id) THEN r
  ELSE
    LET entry == LRU_Entry(r, frame_id)
        hp == ListPos(r.history_list, frame_id)
        cp == ListPos(r.cache_list, frame_id)
        size == IF entry.evictable_ /\ ~set_evictable THEN r.curr_size - 1
                ELSE IF ~entry.evictable_ /\ set_evictable THEN r.curr_size + 1
                ELSE r.curr_size
    IN IF hp # 0
       THEN [r EXCEPT !.history_list[hp].evictable_ = set_evictable, !.curr_size = size]
       ELSE [r EXCEPT !.cache_list[cp].evictable_ = set_evictable, !.curr_size = size]

LRU_Remove(r, frame_id) ==
  IF ~LRU_InMap(r, frame_id) THEN r
  ELSE
    LET hp == ListPos(r.history_list, frame_id)
        cp == ListPos(r.cache_list, frame_id)
    IN IF hp # 0
       THEN [r EXCEPT !.history_list = RemoveAt(@, hp), !.curr_size = @ - 1]
       ELSE [r EXCEPT !.cache_list = RemoveAt(@, cp), !.curr_size = @ - 1]

LRU_Size(r) == r.curr_size

LRU_IsEvictable(r, frame_id) ==
  LRU_InMap(r, frame_id) /\ LRU_Entry(r, frame_id).evictable_

(***************************************************************************)
(* Lock manager.                                                           *)
(*   txn_state[t], iso[t]    the transaction's state and isolation level   *)
(*   tls[t][m]               its table lock set of mode m (table oids)     *)
(*   rls[t][m]               its row lock set of mode m (S, X): the rids,  *)
(*                           each filed under the table TableOf(rid)       *)
(*   table_q[oid], row_q[rid]   the request queues: [present,              *)
(*                           request_queue, upgrading]; a request is       *)
(*                           [txn_id, lock_mode, granted]                  *)
(*   pc[t], req[t]           whether t's thread is blocked in cv_.wait and *)
(*                           the request it waits for                      *)
(*   notified[t]             a notify_all reached t's wait                 *)
(*   err[t]                  the AbortReason of the latest exception       *)
(*   lm_op                   the unlock the step just taken has made, if   *)
(*                           it was a successful UnlockTable / UnlockRow   *)
(*   det_pc, det_todo        where the cycle detection thread is, and the  *)
(*                           queues its scan has still to visit            *)
(*   waits_for, txn_set, safe_set, map_txn_oid, map_txn_rid                *)
(*                           the detector's members                        *)
(***************************************************************************)
\* the transactions, tables and rows of the model
MaxTxns == 2
NumTables == 1
NumRows == 1
\* the transactions of the runs on one table queue, the rows of the
\* deadlock runs
MaxQueueTxns == 3
MaxDeadlockRows == 2
\* the transactions and rows of the runs that look at the detector's victims
MaxVictimTxns == 4
NumVictimRows == 3

INVALID_TXN_ID == -1

AllTxns == 1 .. Max({MaxTxns, MaxQueueTxns, MaxVictimTxns})
Tables == 1 .. NumTables
Rows == 1 .. NumRows
AllRows == 1 .. Max({NumRows, MaxDeadlockRows, NumVictimRows})
TableOf(rid) == ((rid - 1) % NumTables) + 1

\* LockMode and IsolationLevel, in the order of their enumerators
Modes == <<"S", "X", "IS", "IX", "SIX">>
ModeSet == SeqToSet(Modes)
RowModes == {"S", "X"}
IsoLevels == <<"READ_UNCOMMITTED", "REPEATABLE_READ", "READ_COMMITTED">>
IndexIn(seq, x) == CHOOSE i \in 1 .. Len(seq) : seq[i] = x

lock_update_state_martrix ==
  << <<0, 1, 0, 0, 1>>,
     <<0, 0, 0, 0, 0>>,
     <<1, 1, 0, 1, 1>>,
     <<0, 1, 0, 0, 1>>,
     <<0, 1, 0, 0, 0>> >>

lock_compatible_matrix ==
  << <<1, 0, 1, 0, 0>>,
     <<0, 0, 0, 0, 0>>,
     <<1, 0, 1, 1, 1>>,
     <<0, 0, 1, 1, 0>>,
     <<0, 0, 1, 0, 0>> >>

\* the matrix with the entry for S under REPEATABLE_READ cleared
unlock_change_state_matrix_NoRepeatableRead ==
  << <<0, 0, 0>>,
     <<1, 1, 1>>,
     <<0, 0, 0>>,
     <<0, 0, 0>>,
     <<0, 0, 0>> >>

unlock_change_state_matrix ==
  << <<0, 1, 0>>,
     <<1, 1, 1>>,
     <<0, 0, 0>>,
     <<0, 0, 0>>,
     <<0, 0, 0>> >>

\* every change of mode counts as an upgrade
CanUpgrade_Any(held, wanted) == TRUE

CanUpgrade(held, wanted) ==
  lock_update_state_martrix[IndexIn(Modes, held)][IndexIn(Modes, wanted)] = 1

Compatible(held, wanted) ==
  lock_compatible_matrix[IndexIn(Modes, held)][IndexIn(Modes, wanted)] = 1

\* every unlock counts as the start of the shrinking phase
UnlockShrinks_Always(mode, level) == TRUE

UnlockShrinks(mode, level) ==
  unlock_change_state_matrix[IndexIn(Modes, mode)][IndexIn(IsoLevels, level)] = 1

VARIABLES txns, iso, txn_state, tls, rls, table_q, row_q, pc, req, notified, err,
          det_pc, det_todo, waits_for, txn_set, safe_set, map_txn_oid, map_txn_rid,
          lm_op

lmCore == <<iso, txn_state, tls, rls, table_q, row_q, pc, req, notified, err>>

detVars == <<det_pc, det_todo, waits_for, txn_set, safe_set, map_txn_oid, map_txn_rid>>

lmVars == <<txns, lmCore, detVars, lm_op>>

LmState ==
  [iso |-> iso, txn_state |-> txn_state, tls |-> tls, rls |-> rls,
   table_q |-> table_q, row_q |-> row_q, pc |-> pc, req |-> req,
   notified |-> notified, err |-> err]

EmptyQueue == [present |-> FALSE, request_queue |-> <<>>, upgrading |-> INVALID_TXN_ID]

NoReq == [kind |-> "none", res |-> 0, lock_mode |-> "S", upgrade |-> FALSE]

NoEdges == [has |-> FALSE, to |-> {}]

NoLmOp == [op |-> "none", txn |-> INVALID_TXN_ID, kind |-> "none", lock_mode |-> "S",
           before |-> "GROWING"]

NoResource == 0

\* the detector between two rounds: every member cleared
DetectorCleared ==
  /\ det_pc = "sleep"
  /\ det_todo = {}
  /\ waits_for = [t \in AllTxns |-> NoEdges]
  /\ txn_set = {}
  /\ safe_set = {}
  /\ map_txn_oid = [t \in AllTxns |-> NoResource]
  /\ map_txn_rid = [t \in AllTxns |-> NoResource]

\* a lock manager just constructed, serving the transactions ts with the
\* isolation levels levels
InitLockManager(ts, levels) ==
  /\ txns = ts
  /\ iso = levels
  /\ txn_state = [t \in AllTxns |-> "GROWING"]
  /\ tls = [t \in AllTxns |-> [m \in ModeSet |-> {}]]
  /\ rls = [t \in AllTxns |-> [m \in RowModes |-> {}]]
  /\ table_q = [o \in Tables |-> EmptyQueue]
  /\ row_q = [r \in AllRows |-> EmptyQueue]
  /\ pc = [t \in AllTxns |-> "idle"]
  /\ req = [t \in AllTxns |-> NoReq]
  /\ notified = [t \in AllTxns |-> FALSE]
  /\ err = [t \in AllTxns |-> "none"]
  /\ lm_op = NoLmOp
  /\ DetectorCleared

(***************************************************************************)
(* State of the runs that drive one component on its own.                  *)
(*   lru_trace     what the callers of a replacer have done to the frames  *)
(*                 it tracks: [first, last, count], the frames in the      *)
(*                 order of their first access and of their latest access  *)
(*                 (oldest first) and each frame's number of accesses      *)
(*   lru_run       a scripted run of the replacer: the number of accesses  *)
(*                 made and the results of its evict calls                 *)
(*   table         a hash table of integers on its own                     *)
(*   table_map     the value of the latest insert of each key that no      *)
(*                 remove followed, Absent for the other keys              *)
(*   leaf, sibling two B+tree leaf pages, sibling the right neighbour      *)
(*   lk            the lock manager's latches: the thread that holds each  *)
(*                 latch, how far each transaction's call has got with its *)
(*                 latches, the call, the detector's current victim        *)
(***************************************************************************)
VARIABLES lru_trace, lru_run, table, table_map, leaf, sibling, lk

lruVars == <<lru_trace, lru_run>>
htVars == <<table, table_map>>
leafVars == <<leaf, sibling>>
unitVars == <<lruVars, htVars, leafVars, lk>>

\* the latches: table_lock_map_latch_, row_lock_map_latch_ and the latch_ of
\* every request queue
MapLatch(kind) == <<kind, NoResource>>
QueueLatch(kind, res) == <<kind, res>>
LatchIds ==
  {MapLatch("table"), MapLatch("row")}
    \cup {QueueLatch("table", o) : o \in Tables} \cup {QueueLatch("row", r) : r \in AllRows}

\* the threads: one per transaction and the detector's
DetectorThread == 0
NoThread == INVALID_TXN_ID
NoCall == [op |-> "none", lock_mode |-> "S", res |-> NoResource]

NoLatchHeld ==
  [holder |-> [l \in LatchIds |-> NoThread],
   at |-> [t \in AllTxns |-> "none"],
   call |-> [t \in AllTxns |-> NoCall],
   victim |-> INVALID_TXN_ID]

NoTrace(frames) == [first |-> <<>>, last |-> <<>>, count |-> [f \in frames |-> 0]]

\* the component runs have not started
NoRun == [step |-> 0, evicted |-> <<>>]

Absent == -1

NoUnitRuns ==
  /\ lru_trace = NoTrace({})
  /\ lru_run = NoRun
  /\ table = HT_New(BucketSize)
  /\ table_map = <<>>
  /\ leaf = <<>>
  /\ sibling = <<>>
  /\ lk = NoLatchHeld

(***************************************************************************)
(* Buffer pool manager.  The pool state is                                 *)
(*   pages[f] = [page_id, pin_count, is_dirty, data]   the frames          *)
(*   free_list, page_table, replacer, next_page_id                         *)
(*   disk[p]   what the disk manager holds for page p                      *)
(* The operators below work on a record of these fields, one operator per  *)
(* method; an operation's action installs the record it computes.          *)
(***************************************************************************)
VARIABLES pool_size, pages, free_list, page_table, replacer, next_page_id, disk,
          bpm_op, exit_data

bpmVars == <<pool_size, pages, free_list, page_table, replacer, next_page_id, disk,
             bpm_op, exit_data>>

vars == <<bpmVars, lmVars, unitVars>>

Frames == 0 .. (pool_size - 1)

BpmState ==
  [pool_size |-> pool_size, pages |-> pages, free_list |-> free_list,
   page_table |-> page_table, replacer |-> replacer,
   next_page_id |-> next_page_id, disk |-> disk]

\* DiskManager::ReadPage / WritePage: a blocking store of one content per page id
DiskRead(s, page_id) == s.disk[page_id]

DiskWrite(s, page_id, data) == [s EXCEPT !.disk[page_id] = data]

ResetFrame(s, frame_id) ==
  [s EXCEPT !.pages[frame_id] =
     [page_id |-> INVALID_PAGE_ID, pin_count |-> 0, is_dirty |-> FALSE, data |-> ZeroData]]

AddFrame(s, frame_id, page_id) ==
  LET r1 == LRU_RecordAccess(s.replacer, frame_id)
      r2 == LRU_SetEvictable(r1, frame_id, FALSE)
  IN [s EXCEPT !.replacer = r2,
               !.pages[frame_id].pin_count = @ + 1,
               !.pages[frame_id].page_id = page_id,
               !.page_table = HT_Insert(@, page_id, frame_id)]

\* EvictFrame with the reset done before the dirty page is written
EvictFrame_ResetFirst(s, frame_id) ==
  LET s1 == ResetFrame(s, frame_id)
      page_id == s.pages[frame_id].page_id
      s2 == IF s.pages[frame_id].is_dirty
            THEN DiskWrite(s1, page_id, s1.pages[frame_id].data)
            ELSE s1
  IN [s2 EXCEPT !.replacer = LRU_Remove(@, frame_id),
                !.page_table = HT_Remove(@, page_id)]

EvictFrame(s, frame_id) ==
  LET page_id == s.pages[frame_id].page_id
      s1 == IF s.pages[frame_id].is_dirty
            THEN DiskWrite(s, page_id, s.pages[frame_id].data)
            ELSE s
      s2 == ResetFrame(s1, frame_id)
  IN [s2 EXCEPT !.replacer = LRU_Remove(@, frame_id),
                !.page_table = HT_Remove(@, page_id)]

\* [s, ok]
WritePageToDisk(s, page_id) ==
  IF ~HT_Contains(s.page_table, page_id) THEN [s |-> s, ok |-> FALSE]
  ELSE LET frame_id == HT_Find(s.page_table, page_id)
           s1 == DiskWrite(s, page_id, s.pages[frame_id].data)
       IN [s |-> [s1 EXCEPT !.pages[frame_id].is_dirty = FALSE], ok |-> TRUE]

\* NewPgImp with the page id allocated before a frame is looked for
NewPgImp_AllocFirst(s) ==
  LET new_page_id == s.next_page_id
      sa == [s EXCEPT !.next_page_id = @ + 1]
  IN IF s.free_list # <<>>
     THEN LET frame_id == Head(s.free_list)
              s1 == [sa EXCEPT !.free_list = Tail(@)]
          IN [s |-> AddFrame(s1, frame_id, new_page_id), ret |-> new_page_id,
              frame |-> frame_id, victim |-> NoFrame]
     ELSE LET ev == LRU_Evict(s.replacer)
          IN IF ev.ok
             THEN LET s1 == EvictFrame([sa EXCEPT !.replacer = ev.r], ev.frame_id)
                  IN [s |-> AddFrame(s1, ev.frame_id, new_page_id), ret |-> new_page_id,
                      frame |-> ev.frame_id, victim |-> ev.frame_id]
             ELSE [s |-> sa, ret |-> NoFrame, frame |-> NoFrame, victim |-> NoFrame]

\* Each method gives [s, ret, frame, victim]: the state after, what it returns
\* (for NewPgImp the page id stored through page_id, NoFrame standing for
\* nullptr), the frame of the returned page and the frame it evicted.
NewPgImp(s) ==
  IF s.free_list # <<>>
  THEN LET new_page_id == s.next_page_id
           frame_id == Head(s.free_list)
           s1 == [s EXCEPT !.next_page_id = @ + 1, !.free_list = Tail(@)]
       IN [s |-> AddFrame(s1, frame_id, new_page_id), ret |-> new_page_id,
           frame |-> frame_id, victim |-> NoFrame]
  ELSE LET ev == LRU_Evict(s.replacer)
       IN IF ev.ok
          THEN LET s1 == EvictFrame([s EXCEPT !.replacer = ev.r], ev.frame_id)
                   new_page_id == s1.next_page_id
                   s2 == [s1 EXCEPT !.next_page_id = @ + 1]
               IN [s |-> AddFrame(s2, ev.frame_id, new_page_id), ret |-> new_page_id,
                   frame |-> ev.frame_id, victim |-> ev.frame_id]
          ELSE [s |-> s, ret |-> NoFrame, frame |-> NoFrame, victim |-> NoFrame]

FetchPgImp(s, page_id) ==
  IF HT_Contains(s.page_table, page_id)
  THEN LET frame_id == HT_Find(s.page_table, page_id)
           r1 == LRU_RecordAccess(s.replacer, frame_id)
           r2 == LRU_SetEvictable(r1, frame_id, FALSE)
       IN [s |-> [s EXCEPT !.replacer = r2, !.pages[frame_id].pin_count = @ + 1],
           ret |-> frame_id, frame |-> frame_id, victim |-> NoFrame]
  ELSE IF s.free_list # <<>>
  THEN LET frame_id == s.free_list[Len(s.free_list)]
           s1 == [s EXCEPT !.free_list = SubSeq(@, 1, Len(@) - 1)]
           s2 == [s1 EXCEPT !.pages[frame_id].data = DiskRead(s1, page_id)]
       IN [s |-> AddFrame(s2, frame_id, page_id),
           ret |-> frame_id, frame |-> frame_id, victim |-> NoFrame]
  ELSE LET ev == LRU_Evict(s.replacer)
       IN IF ev.ok
          THEN LET s1 == EvictFrame([s EXCEPT !.replacer = ev.r], ev.frame_id)
                   s2 == [s1 EXCEPT !.pages[ev.frame_id].data = DiskRead(s1, page_id)]
               IN [s |-> AddFrame(s2, ev.frame_id, page_id),
                   ret |-> ev.frame_id, frame |-> ev.frame_id, victim |-> ev.frame_id]
          ELSE [s |-> s, ret |-> NoFrame, frame |-> NoFrame, victim |-> NoFrame]

\* UnpinPgImp marking the frame evictable whatever pin count is left
UnpinPgImp_AlwaysEvictable(s, page_id, is_dirty) ==
  IF ~HT_Contains(s.page_table, page_id)
     \/ s.pages[HT_Find(s.page_table, page_id)].pin_count = 0
  THEN [s |-> s, ret |-> FALSE]
  ELSE LET frame_id == HT_Find(s.page_table, page_id)
           s1 == [s EXCEPT !.pages[frame_id].pin_count = @ - 1,
                           !.pages[frame_id].is_dirty = @ \/ is_dirty]
       IN [s |-> [s1 EXCEPT !.replacer = LRU_SetEvictable(@, frame_id, TRUE)],
           ret |-> TRUE]

\* UnpinPgImp assigning is_dirty instead of or-ing it in
UnpinPgImp_Overwrite(s, page_id, is_dirty) ==
  IF ~HT_Contains(s.page_table, page_id)
     \/ s.pages[HT_Find(s.page_table, page_id)].pin_count = 0
  THEN [s |-> s, ret |-> FALSE]
  ELSE LET frame_id == HT_Find(s.page_table, page_id)
           s1 == [s EXCEPT !.pages[frame_id].pin_count = @ - 1,
                           !.pages[frame_id].is_dirty = is_dirty]
       IN [s |-> IF s1.pages[frame_id].pin_count = 0
                 THEN [s1 EXCEPT !.replacer = LRU_SetEvictable(@, frame_id, TRUE)]
                 ELSE s1,
           ret |-> TRUE]

\* UnpinPgImp without the test for a pin count that is already 0
UnpinPgImp_NoZeroCheck(s, page_id, is_dirty) ==
  IF ~HT_Contains(s.page_table, page_id)
  THEN [s |-> s, ret |-> FALSE]
  ELSE LET frame_id == HT_Find(s.page_table, page_id)
           s1 == [s EXCEPT !.pages[frame_id].pin_count = @ - 1,
                           !.pages[frame_id].is_dirty = @ \/ is_dirty]
       IN [s |-> IF s1.pages[frame_id].pin_count = 0
                 THEN [s1 EXCEPT !.replacer = LRU_SetEvictable(@, frame_id, TRUE)]
                 ELSE s1,
           ret |-> TRUE]

\* [s, ret]
UnpinPgImp(s, page_id, is_dirty) ==
  IF ~HT_Contains(s.page_table, page_id)
     \/ s.pages[HT_Find(s.page_table, page_id)].pin_count = 0
  THEN [s |-> s, ret |-> FALSE]
  ELSE LET frame_id == HT_Find(s.page_table, page_id)
           s1 == [s EXCEPT !.pages[frame_id].pin_count = @ - 1,
                           !.pages[frame_id].is_dirty = @ \/ is_dirty]
       IN [s |-> IF s1.pages[frame_id].pin_count = 0
                 THEN [s1 EXCEPT !.replacer = LRU_SetEvictable(@, frame_id, TRUE)]
                 ELSE s1,
           ret |-> TRUE]

FlushPgImp(s, page_id) ==
  LET w == WritePageToDisk(s, page_id) IN [s |-> w.s, ret |-> w.ok]

RECURSIVE FlushFrom(_, _)
FlushFrom(s, i) ==
  IF i >= s.pool_size THEN s
  ELSE IF s.pages[i].page_id # INVALID_PAGE_ID
       THEN FlushFrom(WritePageToDisk(s, s.pages[i].page_id).s, i + 1)
       ELSE FlushFrom(s, i + 1)

FlushAllPgsImp(s) == FlushFrom(s, 0)

\* DeletePgImp that does not give the frame back to the free list
DeletePgImp_NoFreeList(s, page_id) ==
  IF ~HT_Contains(s.page_table, page_id) THEN [s |-> s, ret |-> TRUE]
  ELSE LET frame_id == HT_Find(s.page_table, page_id)
       IN IF s.pages[frame_id].pin_count > 0 THEN [s |-> s, ret |-> FALSE]
          ELSE LET s1 == [s EXCEPT !.replacer = LRU_Remove(@, frame_id),
                                   !.page_table = HT_Remove(@, page_id)]
               IN [s |-> ResetFrame(s1, frame_id), ret |-> TRUE]

DeletePgImp(s, page_id) ==
  IF ~HT_Contains(s.page_table, page_id) THEN [s |-> s, ret |-> TRUE]
  ELSE LET frame_id == HT_Find(s.page_table, page_id)
       IN IF s.pages[frame_id].pin_count > 0 THEN [s |-> s, ret |-> FALSE]
          ELSE LET s1 == [s EXCEPT !.replacer = LRU_Remove(@, frame_id),
                                   !.page_table = HT_Remove(@, page_id)]
                   s2 == ResetFrame(s1, frame_id)
               IN [s |-> [s2 EXCEPT !.free_list = Append(@, frame_id)], ret |-> TRUE]

(***************************************************************************)
(* The buffer pool's operations as actions.  Beside the pool state the     *)
(* actions record, for the properties below:                               *)
(*   bpm_op      the call just made: its name, unpin's dirty argument,     *)
(*               whether it succeeded, whether it changed the pool         *)
(*   exit_data   per page id: <<the content the page had (since its latest *)
(*               unpin)>> when a dirty eviction last took it out of the    *)
(*               pool; NotEvicted while it is resident or left otherwise   *)
(* Each operation is one step (the pool state it installs) and two         *)
(* actions: one keeps bpm_op, one (named ..D) keeps exit_data.             *)
(***************************************************************************)
NotEvicted == <<>>

NoOp == [op |-> "none", dirty |-> FALSE, ok |-> FALSE, changed |-> FALSE]

Install(s) ==
  /\ pages' = s.pages
  /\ free_list' = s.free_list
  /\ page_table' = s.page_table
  /\ replacer' = s.replacer
  /\ next_page_id' = s.next_page_id
  /\ disk' = s.disk
  /\ UNCHANGED <<pool_size, lmVars, unitVars>>

\* how exit_data changes when a call admits page_id and evicts frame victim
ExitAfter(page_id, admitted, victim) ==
  [p \in PageIds |->
     IF admitted /\ p = page_id THEN NotEvicted
     ELSE IF victim # NoFrame /\ p = pages[victim].page_id
          THEN (IF pages[victim].is_dirty THEN <<pages[victim].data>> ELSE NotEvicted)
          ELSE exit_data[p]]

InitPool(n) ==
  /\ pool_size = n
  /\ pages = [f \in 0 .. (n - 1) |->
       [page_id |-> INVALID_PAGE_ID, pin_count |-> 0, is_dirty |-> FALSE, data |-> ZeroData]]
  /\ free_list = [i \in 1 .. n |-> i - 1]
  /\ page_table = HT_New(BucketSize)
  /\ replacer = LRU_New(n, ReplacerK)
  /\ next_page_id = 0
  /\ disk = [p \in PageIds |-> ZeroData]
  /\ bpm_op = NoOp
  /\ exit_data = [p \in PageIds |-> NotEvicted]

NewPageStep ==
  LET r == NewPgImp(BpmState)
  IN /\ r.frame = NoFrame \/ next_page_id < MaxPages
     /\ Install(r.s)

\* caps: a resident page is fetched again only below MaxPin pins and
\* MaxAccess recorded accesses
FetchPageStep(page_id) ==
  /\ HT_Contains(page_table, page_id) =>
       /\ pages[HT_Find(page_table, page_id)].pin_count < MaxPin
       /\ LRU_InMap(replacer, HT_Find(page_table, page_id))
            => LRU_Entry(replacer, HT_Find(page_table, page_id)).cnt_ < MaxAccess
  /\ Install(FetchPgImp(BpmState, page_id).s)

UnpinPageStep(page_id, is_dirty) == Install(UnpinPgImp(BpmState, page_id, is_dirty).s)

FlushPageStep(page_id) == Install(FlushPgImp(BpmState, page_id).s)

FlushAllStep == Install(FlushAllPgsImp(BpmState))

DeletePageStep(page_id) == Install(DeletePgImp(BpmState, page_id).s)

\* the holder of a pin writes the page's content through the Page it was given
WriteDataStep(frame_id, v) ==
  /\ pages[frame_id].pin_count > 0
  /\ pages[frame_id].data # v
  /\ pages' = [pages EXCEPT ![frame_id].data = v]
  /\ UNCHANGED <<pool_size, free_list, page_table, replacer, next_page_id, disk, lmVars,
                 unitVars>>

NewPage ==
  /\ NewPageStep
  /\ bpm_op' = LET r == NewPgImp(BpmState)
                IN [op |-> "new", dirty |-> FALSE, ok |-> r.frame # NoFrame,
                    changed |-> r.s # BpmState]
  /\ UNCHANGED exit_data

FetchPage(page_id) ==
  /\ FetchPageStep(page_id)
  /\ bpm_op' = LET r == FetchPgImp(BpmState, page_id)
                IN [op |-> "fetch", dirty |-> FALSE, ok |-> r.frame # NoFrame,
                    changed |-> r.s # BpmState]
  /\ UNCHANGED exit_data

UnpinPage(page_id, is_dirty) ==
  /\ UnpinPageStep(page_id, is_dirty)
  /\ bpm_op' = LET r == UnpinPgImp(BpmState, page_id, is_dirty)
                IN [op |-> "unpin", dirty |-> is_dirty, ok |-> r.ret,
                    changed |-> r.s # BpmState]
  /\ UNCHANGED exit_data

FlushPage(page_id) ==
  /\ FlushPageStep(page_id)
  /\ bpm_op' = LET r == FlushPgImp(BpmState, page_id)
                IN [op |-> "flush", dirty |-> FALSE, ok |-> r.ret,
                    changed |-> r.s # BpmState]
  /\ UNCHANGED exit_data

FlushAllPages ==
  /\ FlushAllStep
  /\ bpm_op' = [op |-> "flush_all", dirty |-> FALSE, ok |-> TRUE,
                 changed |-> FlushAllPgsImp(BpmState) # BpmState]
  /\ UNCHANGED exit_data

DeletePage(page_id) ==
  /\ DeletePageStep(page_id)
  /\ bpm_op' = LET r == DeletePgImp(BpmState, page_id)
                IN [op |-> "delete", dirty |-> FALSE, ok |-> r.ret,
                    changed |-> r.s # BpmState]
  /\ UNCHANGED exit_data

NextBPM ==
  \/ NewPage
  \/ \E p \in PageIds : FetchPage(p)
  \/ \E p \in PageIds, d \in BOOLEAN : UnpinPage(p, d)
  \/ \E p \in PageIds : FlushPage(p)
  \/ FlushAllPages
  \/ \E p \in PageIds : DeletePage(p)

NewPageD ==
  /\ NewPageStep
  /\ exit_data' = LET r == NewPgImp(BpmState)
                  IN ExitAfter(r.ret, r.frame # NoFrame, r.victim)
  /\ UNCHANGED bpm_op

\* the callers of this run fetch the pages that new_page has handed out
FetchPageD(page_id) ==
  /\ page_id \in 0 .. (next_page_id - 1)
  /\ FetchPageStep(page_id)
  /\ exit_data' = LET r == FetchPgImp(BpmState, page_id)
                  IN ExitAfter(page_id,
                               r.frame # NoFrame /\ ~HT_Contains(page_table, page_id),
                               r.victim)
  /\ UNCHANGED bpm_op

UnpinPageD(page_id, is_dirty) ==
  UnpinPageStep(page_id, is_dirty) /\ UNCHANGED <<bpm_op, exit_data>>

FlushPageD(page_id) == FlushPageStep(page_id) /\ UNCHANGED <<bpm_op, exit_data>>

FlushAllPagesD == FlushAllStep /\ UNCHANGED <<bpm_op, exit_data>>

DeletePageD(page_id) == DeletePageStep(page_id) /\ UNCHANGED <<bpm_op, exit_data>>

WriteDataD(frame_id, v) == WriteDataStep(frame_id, v) /\ UNCHANGED <<bpm_op, exit_data>>

NextBPMData ==
  \/ NewPageD
  \/ \E p \in PageIds : FetchPageD(p)
  \/ \E p \in PageIds, d \in BOOLEAN : UnpinPageD(p, d)
  \/ \E p \in PageIds : FlushPageD(p)
  \/ FlushAllPagesD
  \/ \E p \in PageIds : DeletePageD(p)
  \/ \E f \in Frames, v \in Vals : WriteDataD(f, v)

\* the lock manager of a run that only exercises the buffer pool
NoTransactions == InitLockManager({}, [t \in AllTxns |-> "REPEATABLE_READ"])

InitBPM == InitPool(PoolSize) /\ NoTransactions /\ NoUnitRuns

SpecBPM == InitBPM /\ [][NextBPM]_vars

InitBPMData == InitPool(DataPoolSize) /\ NoTransactions /\ NoUnitRuns

SpecBPMData == InitBPMData /\ [][NextBPMData]_vars

(***************************************************************************)
(* Properties of the buffer pool.  A property about what a call does is    *)
(* stated on the result the method's operator gives in the reachable       *)
(* state, for every argument.                                              *)
(***************************************************************************)
Resident(page_id) == HT_Contains(page_table, page_id)

FrameOf(page_id) == HT_Find(page_table, page_id)

AllPinned == \A f \in Frames : pages[f].pin_count > 0

\* the page the call returns is pinned and not evictable
ReturnedPinned(r) ==
  r.frame # NoFrame =>
    /\ r.s.pages[r.frame].pin_count >= 1
    /\ ~LRU_IsEvictable(r.s.replacer, r.frame)

\* C2: every page new_page or fetch_page returns has pin_count >= 1 and a
\* frame that is not evictable; no pin_count is negative; no frame with
\* pin_count > 0 is evictable, and the victim the replacer would give has
\* pin_count 0.
C2_PinnedNotEvictable ==
  /\ \A f \in Frames :
       /\ pages[f].pin_count >= 0
       /\ pages[f].pin_count > 0 => ~LRU_IsEvictable(replacer, f)
  /\ ReturnedPinned(NewPgImp(BpmState))
  /\ \A p \in PageIds : ReturnedPinned(FetchPgImp(BpmState, p))
  /\ LRU_Evict(replacer).ok => pages[LRU_Evict(replacer).frame_id].pin_count = 0

\* a fetch has just returned a page while another frame is evictable
C2_Witness ==
  /\ bpm_op.op = "fetch" /\ bpm_op.ok /\ bpm_op.changed
  /\ \E f \in Frames : pages[f].pin_count = MaxPin
  /\ \E f \in Frames : pages[f].pin_count = 0 /\ LRU_IsEvictable(replacer, f)

ValidFramePageIds == {pages[f].page_id : f \in Frames} \ {INVALID_PAGE_ID}

\* C3: the page ids of the page table are the page ids of the frames whose
\* page_id is not INVALID, each maps to the frame holding it, and a frame's
\* page_id is INVALID exactly when the frame is on the free list.
C3_PageTableMatchesFrames ==
  /\ HT_Keys(page_table) = ValidFramePageIds
  /\ \A p \in HT_Keys(page_table) : pages[FrameOf(p)].page_id = p
  /\ \A f \in Frames :
       pages[f].page_id = INVALID_PAGE_ID <=> f \in SeqToSet(free_list)

\* C5: an unpin with dirty = true sets is_dirty, an unpin with dirty = false
\* of a dirty page leaves it set, and a step clears a frame's is_dirty only
\* by a flush, a delete, or a new/fetch that takes the frame as its victim.
C5_DirtySticky ==
  [][ /\ \A p \in PageIds, d \in BOOLEAN :
           LET r == UnpinPgImp(BpmState, p, d)
           IN r.ret => (r.s.pages[FrameOf(p)].is_dirty
                          <=> (pages[FrameOf(p)].is_dirty \/ d))
      /\ \A f \in Frames :
           (pages[f].is_dirty /\ ~pages'[f].is_dirty) =>
             \/ bpm_op'.op \in {"flush", "flush_all", "delete"}
             \/ /\ bpm_op'.op \in {"new", "fetch"}
                /\ free_list = <<>>
                /\ LRU_Evict(replacer).ok /\ LRU_Evict(replacer).frame_id = f
    ]_vars

\* both pages are dirty right after a successful unpin(p, false)
C5_Witness ==
  /\ bpm_op.op = "unpin" /\ bpm_op.ok /\ ~bpm_op.dirty
  /\ \A f \in Frames : pages[f].is_dirty /\ pages[f].page_id # INVALID_PAGE_ID

\* C6: unpin_page(p, dirty) returns false and changes nothing when p is not
\* resident or its pin_count is 0; otherwise it returns true, takes exactly
\* one from p's pin_count, changes no other pin count, the page table, the
\* free list or the disk, and leaves p's frame evictable exactly when the
\* pin_count reached 0.
C6_Unpin ==
  \A p \in PageIds, d \in BOOLEAN :
    LET r == UnpinPgImp(BpmState, p, d)
    IN IF ~Resident(p) \/ pages[FrameOf(p)].pin_count = 0
       THEN ~r.ret /\ r.s = BpmState
       ELSE /\ r.ret
            /\ r.s.pages[FrameOf(p)].pin_count = pages[FrameOf(p)].pin_count - 1
            /\ \A f \in Frames \ {FrameOf(p)} : r.s.pages[f] = pages[f]
            /\ r.s.page_table = page_table
            /\ r.s.free_list = free_list
            /\ r.s.disk = disk
            /\ LRU_IsEvictable(r.s.replacer, FrameOf(p))
                 <=> r.s.pages[FrameOf(p)].pin_count = 0

\* after an unpin one frame is at pin count 0 and evictable, another at 1 and not
C6_Witness ==
  /\ bpm_op.op = "unpin" /\ bpm_op.ok
  /\ \E f \in Frames : pages[f].pin_count = 0 /\ LRU_IsEvictable(replacer, f)
  /\ \E f \in Frames : pages[f].pin_count = 1 /\ ~LRU_IsEvictable(replacer, f)

\* C7: with the free list empty and every frame pinned, new_page and
\* fetch_page of a page that is not resident return null and change nothing
\* (next_page_id included).
C7_NoFrameNoChange ==
  (free_list = <<>> /\ AllPinned) =>
    /\ LET r == NewPgImp(BpmState) IN r.frame = NoFrame /\ r.s = BpmState
    /\ \A p \in PageIds :
         ~Resident(p) =>
           LET r == FetchPgImp(BpmState, p) IN r.frame = NoFrame /\ r.s = BpmState

\* a new_page has just failed on a pool whose frames are all pinned
C7_Witness ==
  /\ bpm_op.op = "new" /\ ~bpm_op.ok
  /\ free_list = <<>> /\ AllPinned
  /\ next_page_id > 0 /\ next_page_id < MaxPages

\* what delete_page(p) does; shared by the two statements of C8
DeleteContract ==
  \A p \in PageIds :
    LET r == DeletePgImp(BpmState, p)
    IN IF ~Resident(p) THEN r.ret /\ r.s = BpmState
       ELSE IF pages[FrameOf(p)].pin_count > 0 THEN ~r.ret /\ r.s = BpmState
       ELSE /\ r.ret
            /\ ~LRU_InMap(r.s.replacer, FrameOf(p))
            /\ ~HT_Contains(r.s.page_table, p)
            /\ r.s.pages[FrameOf(p)] =
                 [page_id |-> INVALID_PAGE_ID, pin_count |-> 0,
                  is_dirty |-> FALSE, data |-> ZeroData]
            /\ r.s.free_list = Append(free_list, FrameOf(p))

\* the free frames after new_page, unpin_page, delete_page of the new page,
\* less those before: the set of the differences over unpin's argument
NewUnpinDeleteGain ==
  LET n == NewPgImp(BpmState)
  IN {Len(DeletePgImp(UnpinPgImp(n.s, n.ret, d).s, n.ret).s.free_list)
        - Len(free_list) : d \in BOOLEAN}

\* C8 as claimed: the delete contract, and new_page, unpin, delete_page
\* leaves as many free frames as there were before the new_page.
C8_DeleteAsClaimed ==
  /\ DeleteContract
  /\ NewPgImp(BpmState).frame # NoFrame => NewUnpinDeleteGain = {0}

\* C8 as amended: the delete contract, and new_page, unpin, delete_page
\* puts the new page's frame at the end of the free list: as many free
\* frames as before when new_page took the frame from the free list, one
\* more when it evicted a page to get it.
C8_Delete ==
  /\ DeleteContract
  /\ LET n == NewPgImp(BpmState)
     IN n.frame # NoFrame =>
          /\ NewUnpinDeleteGain = {IF n.victim = NoFrame THEN 0 ELSE 1}
          /\ \A d \in BOOLEAN :
               LET fl == DeletePgImp(UnpinPgImp(n.s, n.ret, d).s, n.ret).s.free_list
               IN fl[Len(fl)] = n.frame

\* a delete has just put the last resident page's frame back: all are free
C8_Witness ==
  /\ bpm_op.op = "delete" /\ bpm_op.ok /\ bpm_op.changed
  /\ Len(free_list) = pool_size
  /\ next_page_id > 0

\* C4: when new_page or fetch_page evicts a dirty page, the disk then holds,
\* under the victim's page id, the content the frame had before the reset,
\* and nothing else on the disk changes; a clean victim changes nothing on
\* the disk; and a page that a dirty eviction took out is, until it is
\* resident again, on the disk with the content it had at its latest unpin,
\* which is the content a fetch_page of it returns.
EvictionWrites(r) ==
  r.victim # NoFrame =>
    IF pages[r.victim].is_dirty
    THEN r.s.disk = [disk EXCEPT ![pages[r.victim].page_id] = pages[r.victim].data]
    ELSE r.s.disk = disk

QueueOf(L, kind, res) == IF kind = "table" THEN L.table_q[res] ELSE L.row_q[res]

SetQueue(L, kind, res, q) ==
  IF kind = "table" THEN [L EXCEPT !.table_q[res] = q] ELSE [L EXCEPT !.row_q[res] = q]

\* position of the first request of txn_id in the queue, 0 when none
RequestPos(rq, txn_id) ==
  LET S == {i \in 1 .. Len(rq) : rq[i].txn_id = txn_id}
  IN IF S = {} THEN 0 ELSE Min(S)

\* position of the first request that is not granted, Len + 1 when none
FirstUngranted(rq) ==
  LET S == {i \in 1 .. Len(rq) : ~rq[i].granted}
  IN IF S = {} THEN Len(rq) + 1 ELSE Min(S)

\* GrantLock without the comparison of modes
GrantLock_IgnoreMode(rq, txn_id) ==
  LET i == FirstUngranted(rq)
  IN i <= Len(rq) /\ rq[i].txn_id = txn_id

\* GrantLock that does not yield to requests waiting ahead of the candidate
GrantLock_NoYield(rq, txn_id) ==
  LET me == RequestPos(rq, txn_id)
  IN \A j \in 1 .. Len(rq) :
       rq[j].granted => Compatible(rq[j].lock_mode, rq[me].lock_mode)

\* GrantLock for the request of txn_id: walking from the front, a granted
\* request that is incompatible refuses it, the first request that is not
\* granted decides (true when it is the candidate)
GrantLock(rq, txn_id) ==
  LET i == FirstUngranted(rq)
      me == RequestPos(rq, txn_id)
  IN /\ i <= Len(rq)
     /\ \A j \in 1 .. (i - 1) : Compatible(rq[j].lock_mode, rq[me].lock_mode)
     /\ rq[i].txn_id = txn_id

\* TransctionThrowAbort, and the throws written out in LockTable / LockRow
ThrowAbort(L, t, reason) ==
  [L EXCEPT !.txn_state[t] = "ABORTED", !.err[t] = reason]

\* cv_.notify_all() on a queue: every thread waiting on it is woken
NotifyAll(L, kind, res) ==
  [L EXCEPT !.notified =
     [u \in AllTxns |->
        IF L.pc[u] = "wait" /\ L.req[u].kind = kind /\ L.req[u].res = res
        THEN TRUE ELSE L.notified[u]]]

\* InsertOrDeleteTableLockSet that never erases
InsertOrDeleteTableLockSet_NoErase(L, t, lock_mode, oid, insert) ==
  IF insert THEN [L EXCEPT !.tls[t][lock_mode] = @ \cup {oid}] ELSE L

InsertOrDeleteTableLockSet(L, t, lock_mode, oid, insert) ==
  IF insert THEN [L EXCEPT !.tls[t][lock_mode] = @ \cup {oid}]
  ELSE [L EXCEPT !.tls[t][lock_mode] = @ \ {oid}]

InsertOrDeleteRowLockSet(L, t, lock_mode, rid, insert) ==
  IF lock_mode \notin RowModes THEN L
  ELSE IF insert THEN [L EXCEPT !.rls[t][lock_mode] = @ \cup {rid}]
  ELSE [L EXCEPT !.rls[t][lock_mode] = @ \ {rid}]

InsertOrDeleteLockSet(L, kind, t, lock_mode, res, insert) ==
  IF kind = "table" THEN InsertOrDeleteTableLockSet(L, t, lock_mode, res, insert)
  ELSE InsertOrDeleteRowLockSet(L, t, lock_mode, res, insert)

\* the checks without the one for REPEATABLE_READ
IsolationCheck_NoRepeatableRead(level, state, lock_mode) ==
  IF level = "READ_UNCOMMITTED" /\ lock_mode \in {"S", "IS", "SIX"}
  THEN "LOCK_SHARED_ON_READ_UNCOMMITTED"
  ELSE IF level = "READ_UNCOMMITTED" /\ state = "SHRINKING" /\ lock_mode \in {"X", "IX"}
  THEN "LOCK_ON_SHRINKING"
  ELSE IF level = "READ_COMMITTED" /\ state = "SHRINKING" /\ lock_mode \notin {"IS", "S"}
  THEN "LOCK_ON_SHRINKING"
  ELSE "none"

\* the checks without the one for READ_COMMITTED
IsolationCheck_NoReadCommitted(level, state, lock_mode) ==
  IF level = "READ_UNCOMMITTED" /\ lock_mode \in {"S", "IS", "SIX"}
  THEN "LOCK_SHARED_ON_READ_UNCOMMITTED"
  ELSE IF level = "READ_UNCOMMITTED" /\ state = "SHRINKING" /\ lock_mode \in {"X", "IX"}
  THEN "LOCK_ON_SHRINKING"
  ELSE IF level = "REPEATABLE_READ" /\ state = "SHRINKING"
  THEN "LOCK_ON_SHRINKING"
  ELSE "none"

\* the checks of isolation level and state at the head of LockTable and
\* LockRow: the AbortReason thrown, "none" when the request passes
IsolationCheck(level, state, lock_mode) ==
  IF level = "READ_UNCOMMITTED" /\ lock_mode \in {"S", "IS", "SIX"}
  THEN "LOCK_SHARED_ON_READ_UNCOMMITTED"
  ELSE IF level = "READ_UNCOMMITTED" /\ state = "SHRINKING" /\ lock_mode \in {"X", "IX"}
  THEN "LOCK_ON_SHRINKING"
  ELSE IF level = "READ_COMMITTED" /\ state = "SHRINKING" /\ lock_mode \notin {"IS", "S"}
  THEN "LOCK_ON_SHRINKING"
  ELSE IF level = "REPEATABLE_READ" /\ state = "SHRINKING"
  THEN "LOCK_ON_SHRINKING"
  ELSE "none"

\* the end of a wait loop whose GrantLock gave true: the request is granted,
\* an upgrade's marker cleared, the lock set updated, the queue notified
\* unless the mode is X; the call returns true
Granted(L, kind, t, lock_mode, res, upgrade) ==
  LET q == QueueOf(L, kind, res)
      me == RequestPos(q.request_queue, t)
      q1 == [q EXCEPT !.request_queue[me].granted = TRUE,
                      !.upgrading = IF upgrade THEN INVALID_TXN_ID ELSE @]
      L1 == InsertOrDeleteLockSet(SetQueue(L, kind, res, q1), kind, t, lock_mode, res, TRUE)
      L2 == IF lock_mode # "X" THEN NotifyAll(L1, kind, res) ELSE L1
  IN [L2 EXCEPT !.pc[t] = "idle", !.req[t] = NoReq, !.notified[t] = FALSE]

\* the wait loop entered with the request in the queue: granted at once, or
\* the thread blocks in cv_.wait
EnterWaitLoop(L, kind, t, lock_mode, res, upgrade) ==
  IF GrantLock(QueueOf(L, kind, res).request_queue, t)
  THEN Granted(L, kind, t, lock_mode, res, upgrade)
  ELSE [L EXCEPT !.pc[t] = "wait",
                 !.req[t] = [kind |-> kind, res |-> res, lock_mode |-> lock_mode,
                             upgrade |-> upgrade],
                 !.notified[t] = FALSE]

\* the queue part without the test of upgrading_
LockOnQueue_NoConflictCheck(L, kind, t, lock_mode, res) ==
  LET q0 == QueueOf(L, kind, res)
      q == [q0 EXCEPT !.present = TRUE]
      Lp == SetQueue(L, kind, res, q)
      rq == q.request_queue
      me == RequestPos(rq, t)
  IN IF me # 0
     THEN IF rq[me].lock_mode = lock_mode THEN Lp
          ELSE IF ~CanUpgrade(rq[me].lock_mode, lock_mode)
          THEN ThrowAbort(Lp, t, "INCOMPATIBLE_UPGRADE")
          ELSE LET removed == RemoveAt(rq, me)
                   L1 == InsertOrDeleteLockSet(Lp, kind, t, rq[me].lock_mode, res, FALSE)
                   new_rq == InsertAt(removed, FirstUngranted(removed),
                                      [txn_id |-> t, lock_mode |-> lock_mode,
                                       granted |-> FALSE])
                   q1 == [q EXCEPT !.request_queue = new_rq, !.upgrading = t]
               IN EnterWaitLoop(SetQueue(L1, kind, res, q1), kind, t, lock_mode, res, TRUE)
     ELSE LET q1 == [q EXCEPT !.request_queue =
                       Append(@, [txn_id |-> t, lock_mode |-> lock_mode,
                                  granted |-> FALSE])]
          IN EnterWaitLoop(SetQueue(Lp, kind, res, q1), kind, t, lock_mode, res, FALSE)

\* LockTable and LockRow from the point where the queue's latch is held
LockOnQueue(L, kind, t, lock_mode, res) ==
  LET q0 == QueueOf(L, kind, res)
      q == [q0 EXCEPT !.present = TRUE]
      Lp == SetQueue(L, kind, res, q)
      rq == q.request_queue
      me == RequestPos(rq, t)
  IN IF me # 0
     THEN IF rq[me].lock_mode = lock_mode THEN Lp
          ELSE IF q.upgrading # INVALID_TXN_ID THEN ThrowAbort(Lp, t, "UPGRADE_CONFLICT")
          ELSE IF ~CanUpgrade(rq[me].lock_mode, lock_mode)
          THEN ThrowAbort(Lp, t, "INCOMPATIBLE_UPGRADE")
          ELSE LET removed == RemoveAt(rq, me)
                   L1 == InsertOrDeleteLockSet(Lp, kind, t, rq[me].lock_mode, res, FALSE)
                   new_rq == InsertAt(removed, FirstUngranted(removed),
                                      [txn_id |-> t, lock_mode |-> lock_mode,
                                       granted |-> FALSE])
                   q1 == [q EXCEPT !.request_queue = new_rq, !.upgrading = t]
               IN EnterWaitLoop(SetQueue(L1, kind, res, q1), kind, t, lock_mode, res, TRUE)
     ELSE LET q1 == [q EXCEPT !.request_queue =
                       Append(@, [txn_id |-> t, lock_mode |-> lock_mode,
                                  granted |-> FALSE])]
          IN EnterWaitLoop(SetQueue(Lp, kind, res, q1), kind, t, lock_mode, res, FALSE)

LockTable(L, t, lock_mode, oid) ==
  LET reason == IsolationCheck(L.iso[t], L.txn_state[t], lock_mode)
  IN IF reason # "none" THEN ThrowAbort(L, t, reason)
     ELSE LockOnQueue([L EXCEPT !.err[t] = "none"], "table", t, lock_mode, oid)

HoldsTable(L, t, modes, oid) == \E m \in modes : oid \in L.tls[t][m]

\* LockRow without the test of the table lock for a shared row lock
LockRow_NoSharedTableCheck(L, t, lock_mode, oid, rid) ==
  LET reason == IsolationCheck(L.iso[t], L.txn_state[t], lock_mode)
  IN IF lock_mode \notin RowModes
     THEN ThrowAbort(L, t, "ATTEMPTED_INTENTION_LOCK_ON_ROW")
     ELSE IF reason # "none" THEN ThrowAbort(L, t, reason)
     ELSE IF lock_mode = "X" /\ ~HoldsTable(L, t, {"X", "IX", "SIX"}, oid)
     THEN ThrowAbort(L, t, "TABLE_LOCK_NOT_PRESENT")
     ELSE LockOnQueue([L EXCEPT !.err[t] = "none"], "row", t, lock_mode, rid)

LockRow(L, t, lock_mode, oid, rid) ==
  LET reason == IsolationCheck(L.iso[t], L.txn_state[t], lock_mode)
  IN IF lock_mode \notin RowModes
     THEN ThrowAbort(L, t, "ATTEMPTED_INTENTION_LOCK_ON_ROW")
     ELSE IF reason # "none" THEN ThrowAbort(L, t, reason)
     ELSE IF lock_mode = "X" /\ ~HoldsTable(L, t, {"X", "IX", "SIX"}, oid)
     THEN ThrowAbort(L, t, "TABLE_LOCK_NOT_PRESENT")
     ELSE IF lock_mode = "S" /\ ~HoldsTable(L, t, {"X", "IX", "SIX", "S", "IS"}, oid)
     THEN ThrowAbort(L, t, "TABLE_LOCK_NOT_PRESENT")
     ELSE LockOnQueue([L EXCEPT !.err[t] = "none"], "row", t, lock_mode, rid)

\* the waiter's turn after cv_.wait that leaves the request of an aborted
\* transaction in the queue
WakeTable_KeepRequest(L, t) ==
  LET r == L.req[t]
  IN IF L.txn_state[t] = "ABORTED"
     THEN NotifyAll([L EXCEPT !.pc[t] = "idle", !.req[t] = NoReq, !.notified[t] = FALSE],
                    "table", r.res)
     ELSE EnterWaitLoop(L, "table", t, r.lock_mode, r.res, r.upgrade)

\* the waiter's thread runs again after cv_.wait
WakeTable(L, t) ==
  LET r == L.req[t]
      q == L.table_q[r.res]
  IN IF L.txn_state[t] = "ABORTED"
     THEN LET q1 == [q EXCEPT !.request_queue = RemoveAt(@, RequestPos(@, t)),
                              !.upgrading = IF r.upgrade THEN INVALID_TXN_ID ELSE @]
              L1 == [SetQueue(L, "table", r.res, q1)
                       EXCEPT !.pc[t] = "idle", !.req[t] = NoReq, !.notified[t] = FALSE]
          IN NotifyAll(L1, "table", r.res)
     ELSE EnterWaitLoop(L, "table", t, r.lock_mode, r.res, r.upgrade)

WakeRow(L, t) ==
  LET r == L.req[t]
      q == L.row_q[r.res]
  IN IF L.txn_state[t] = "ABORTED"
     THEN LET q1 == [q EXCEPT !.request_queue = RemoveAt(@, RequestPos(@, t))]
              L1 == [SetQueue(L, "row", r.res, q1)
                       EXCEPT !.pc[t] = "idle", !.req[t] = NoReq, !.notified[t] = FALSE]
          IN NotifyAll(L1, "row", r.res)
     ELSE EnterWaitLoop(L, "row", t, r.lock_mode, r.res, r.upgrade)

\* position of the first granted request of txn_id, 0 when none
GrantedPos(rq, txn_id) ==
  LET S == {i \in 1 .. Len(rq) : rq[i].txn_id = txn_id /\ rq[i].granted}
  IN IF S = {} THEN 0 ELSE Min(S)

\* the unlock without cv_.notify_all()
UnlockOnQueue_NoNotify(L, kind, t, res) ==
  LET q == QueueOf(L, kind, res)
      pos == GrantedPos(q.request_queue, t)
  IN IF pos = 0 THEN ThrowAbort(L, t, "ATTEMPTED_UNLOCK_BUT_NO_LOCK_HELD")
     ELSE LET lock_mode == q.request_queue[pos].lock_mode
              L1 == SetQueue(L, kind, res, [q EXCEPT !.request_queue = RemoveAt(@, pos)])
              L3 == IF UnlockShrinks(lock_mode, L.iso[t])
                       /\ L.txn_state[t] \notin {"COMMITTED", "ABORTED"}
                    THEN [L1 EXCEPT !.txn_state[t] = "SHRINKING"]
                    ELSE L1
          IN [InsertOrDeleteLockSet(L3, kind, t, lock_mode, res, FALSE)
                EXCEPT !.err[t] = "none"]

\* the common end of UnlockTable and UnlockRow: the granted request leaves
\* the queue, the queue is notified, the state may turn SHRINKING, the lock
\* set is updated
UnlockOnQueue(L, kind, t, res) ==
  LET q == QueueOf(L, kind, res)
      pos == GrantedPos(q.request_queue, t)
  IN IF pos = 0 THEN ThrowAbort(L, t, "ATTEMPTED_UNLOCK_BUT_NO_LOCK_HELD")
     ELSE LET lock_mode == q.request_queue[pos].lock_mode
              L1 == SetQueue(L, kind, res, [q EXCEPT !.request_queue = RemoveAt(@, pos)])
              L2 == NotifyAll(L1, kind, res)
              L3 == IF UnlockShrinks(lock_mode, L.iso[t])
                       /\ L.txn_state[t] \notin {"COMMITTED", "ABORTED"}
                    THEN [L2 EXCEPT !.txn_state[t] = "SHRINKING"]
                    ELSE L2
          IN [InsertOrDeleteLockSet(L3, kind, t, lock_mode, res, FALSE)
                EXCEPT !.err[t] = "none"]

\* UnlockTable without the test of the row locks
UnlockTable_NoRowCheck(L, t, oid) ==
  IF ~L.table_q[oid].present
  THEN ThrowAbort(L, t, "ATTEMPTED_UNLOCK_BUT_NO_LOCK_HELD")
  ELSE UnlockOnQueue(L, "table", t, oid)

UnlockTable(L, t, oid) ==
  IF ~L.table_q[oid].present
  THEN ThrowAbort(L, t, "ATTEMPTED_UNLOCK_BUT_NO_LOCK_HELD")
  ELSE IF \E r \in L.rls[t]["S"] \cup L.rls[t]["X"] : TableOf(r) = oid
  THEN ThrowAbort(L, t, "TABLE_UNLOCKED_BEFORE_UNLOCKING_ROWS")
  ELSE UnlockOnQueue(L, "table", t, oid)

UnlockRow(L, t, oid, rid) ==
  IF ~L.row_q[rid].present
  THEN ThrowAbort(L, t, "ATTEMPTED_UNLOCK_BUT_NO_LOCK_HELD")
  ELSE UnlockOnQueue(L, "row", t, rid)

(***************************************************************************)
(* Deadlock detection.  waits_for[t] is [has, to]: whether waits_for_ has  *)
(* an entry for t, and the entry's out-edges; Dfs sorts the out-edges      *)
(* before it walks them, so they are kept as a set walked in ascending     *)
(* order.  txn_set_ is walked in ascending order of the ids.               *)
(***************************************************************************)
DetState ==
  [waits_for |-> waits_for, txn_set |-> txn_set, safe_set |-> safe_set,
   map_txn_oid |-> map_txn_oid, map_txn_rid |-> map_txn_rid]

AddEdge(D, t1, t2) ==
  [D EXCEPT !.txn_set = @ \cup {t1, t2},
            !.waits_for[t1] = [has |-> TRUE, to |-> @.to \cup {t2}]]

RemoveEdge(D, t1, t2) ==
  [D EXCEPT !.waits_for[t1] = [has |-> TRUE, to |-> @.to \ {t2}]]

RECURSIVE RemoveEdgesTo(_, _, _)
RemoveEdgesTo(D, from, txn_id) ==
  IF from = {} THEN D
  ELSE LET a == Min(from)
       IN RemoveEdgesTo(RemoveEdge(D, a, txn_id), from \ {a}, txn_id)

DeleteNode(D, txn_id) ==
  RemoveEdgesTo([D EXCEPT !.waits_for[txn_id] = NoEdges], D.txn_set \ {txn_id}, txn_id)

\* Dfs(start_id) with the members active_set_ and safe_set_ passed along:
\* [found, active, safe]
RECURSIVE Dfs(_, _, _, _)
RECURSIVE DfsNext(_, _, _, _, _)
Dfs(wf, start_id, active, safe) ==
  IF start_id \in safe THEN [found |-> FALSE, active |-> active, safe |-> safe]
  ELSE IF ~wf[start_id].has
  THEN [found |-> FALSE, active |-> active, safe |-> safe \cup {start_id}]
  ELSE DfsNext(wf, start_id, wf[start_id].to, active \cup {start_id}, safe)

DfsNext(wf, start_id, next_node_set, active, safe) ==
  IF next_node_set = {}
  THEN [found |-> FALSE, active |-> active \ {start_id}, safe |-> safe \cup {start_id}]
  ELSE LET next_node == Min(next_node_set)
       IN IF next_node \in active
          THEN [found |-> TRUE, active |-> active, safe |-> safe]
          ELSE LET r == Dfs(wf, next_node, active, safe)
               IN IF r.found THEN r
                  ELSE DfsNext(wf, start_id, next_node_set \ {next_node}, r.active, r.safe)

\* HasCycle: [found, txn_id, safe]
RECURSIVE HasCycleFrom(_, _, _)
HasCycleFrom(wf, starts, safe) ==
  IF starts = {} THEN [found |-> FALSE, txn_id |-> INVALID_TXN_ID, safe |-> safe]
  ELSE LET start_txn_id == Min(starts)
           r == Dfs(wf, start_txn_id, {}, safe)
       IN IF r.found THEN [found |-> TRUE, txn_id |-> Max(r.active), safe |-> r.safe]
          ELSE HasCycleFrom(wf, starts \ {start_txn_id}, r.safe)

\* HasCycle that names the lowest transaction of the graph as the victim
HasCycle_LowestVictim(D) ==
  LET h == HasCycleFrom(D.waits_for, D.txn_set, D.safe_set)
  IN IF h.found THEN [h EXCEPT !.txn_id = Min(D.txn_set)] ELSE h

HasCycle(D) == HasCycleFrom(D.waits_for, D.txn_set, D.safe_set)

\* the body of RunCycleDetection's loop over one queue: every request that
\* is not granted is recorded with its resource and gets an edge to every
\* granted request in front of it
RECURSIVE ScanQueue(_, _, _, _, _, _)
ScanQueue(D, kind, res, rq, i, granted_set) ==
  IF i > Len(rq) THEN D
  ELSE IF rq[i].granted
  THEN ScanQueue(D, kind, res, rq, i + 1, granted_set \cup {rq[i].txn_id})
  ELSE LET t == rq[i].txn_id
           D1 == IF kind = "table"
                 THEN [D EXCEPT !.map_txn_oid[t] = IF @ = NoResource THEN res ELSE @]
                 ELSE [D EXCEPT !.map_txn_rid[t] = IF @ = NoResource THEN res ELSE @]
           D2 == [D1 EXCEPT !.txn_set = IF granted_set = {} THEN @ ELSE @ \cup {t} \cup granted_set,
                            !.waits_for[t] = IF granted_set = {} THEN @
                                             ELSE [has |-> TRUE, to |-> @.to \cup granted_set]]
       IN ScanQueue(D2, kind, res, rq, i + 1, granted_set)

(***************************************************************************)
(* The lock manager's steps.  A call runs from its entry to its return or  *)
(* to its cv_.wait as one step: it holds the queue's latch throughout, and *)
(* before taking it only reads members of its own transaction.  A thread   *)
(* that was notified runs from the wait to its return or its next wait.    *)
(* Lock calls come from transactions that are GROWING or SHRINKING; unlock *)
(* calls also from finished ones, whose locks the transaction manager      *)
(* releases.  While the detector scans it holds both map latches, which    *)
(* every call needs first.                                                 *)
(***************************************************************************)
SetLM(L) ==
  /\ txn_state' = L.txn_state
  /\ tls' = L.tls
  /\ rls' = L.rls
  /\ table_q' = L.table_q
  /\ row_q' = L.row_q
  /\ pc' = L.pc
  /\ req' = L.req
  /\ notified' = L.notified
  /\ err' = L.err

InstallLM(L) ==
  /\ SetLM(L)
  /\ UNCHANGED <<txns, iso, bpmVars, unitVars>>

\* what an unlock call that led to L has done: a record of the released
\* lock when the call returned true, NoLmOp when it threw
UnlockDone(L, kind, t, res) ==
  IF L.err[t] # "none" THEN NoLmOp
  ELSE LET rq == QueueOf(LmState, kind, res).request_queue
       IN [op |-> "unlock", txn |-> t, kind |-> kind,
           lock_mode |-> rq[GrantedPos(rq, t)].lock_mode, before |-> txn_state[t]]

CanCall(t) == t \in txns /\ pc[t] = "idle" /\ det_pc # "scan"

Active(t) == txn_state[t] \in {"GROWING", "SHRINKING"}

LockTableCall(t, lock_mode, oid) ==
  /\ CanCall(t) /\ Active(t)
  /\ InstallLM(LockTable(LmState, t, lock_mode, oid))
  /\ lm_op' = NoLmOp
  /\ UNCHANGED detVars

LockRowCall(t, lock_mode, rid) ==
  /\ CanCall(t) /\ Active(t)
  /\ InstallLM(LockRow(LmState, t, lock_mode, TableOf(rid), rid))
  /\ lm_op' = NoLmOp
  /\ UNCHANGED detVars

UnlockTableCall(t, oid) ==
  /\ CanCall(t)
  /\ InstallLM(UnlockTable(LmState, t, oid))
  /\ lm_op' = UnlockDone(UnlockTable(LmState, t, oid), "table", t, oid)
  /\ UNCHANGED detVars

UnlockRowCall(t, rid) ==
  /\ CanCall(t)
  /\ InstallLM(UnlockRow(LmState, t, TableOf(rid), rid))
  /\ lm_op' = UnlockDone(UnlockRow(LmState, t, TableOf(rid), rid), "row", t, rid)
  /\ UNCHANGED detVars

\* a notified waiter gets the queue's latch back
WakeUp(t) ==
  /\ t \in txns /\ pc[t] = "wait" /\ notified[t]
  /\ InstallLM(IF req[t].kind = "table" THEN WakeTable(LmState, t) ELSE WakeRow(LmState, t))
  /\ lm_op' = NoLmOp
  /\ UNCHANGED detVars

\* TransactionManager::Commit sets the state before it releases the locks
Commit(t) ==
  /\ t \in txns /\ pc[t] = "idle" /\ Active(t)
  /\ txn_state' = [txn_state EXCEPT ![t] = "COMMITTED"]
  /\ lm_op' = NoLmOp
  /\ UNCHANGED <<txns, iso, tls, rls, table_q, row_q, pc, req, notified, err, detVars, bpmVars,
                 unitVars>>

InstallDet(D) ==
  /\ waits_for' = D.waits_for
  /\ txn_set' = D.txn_set
  /\ safe_set' = D.safe_set
  /\ map_txn_oid' = D.map_txn_oid
  /\ map_txn_rid' = D.map_txn_rid

\* RunCycleDetection wakes up and takes both map latches; a round that finds
\* no waiting request builds no graph and changes nothing, and is left out
DetectorStart ==
  /\ det_pc = "sleep"
  /\ \E t \in txns : pc[t] = "wait"
  /\ det_pc' = "scan"
  /\ det_todo' = {<<"table", o>> : o \in {x \in Tables : table_q[x].present}}
                   \cup {<<"row", r>> : r \in {x \in AllRows : row_q[x].present}}
  /\ lm_op' = NoLmOp
  /\ UNCHANGED <<txns, lmCore, waits_for, txn_set, safe_set, map_txn_oid, map_txn_rid,
                 bpmVars, unitVars>>

\* the detector goes on with the members D: to the next turn of the loop
\* "while (HasCycle(&txn_id))" when a cycle is left, and otherwise, HasCycle
\* having touched nothing but the detector's own members, to the clearing of
\* the members and the next sleep
DetectorGoesOn(D) ==
  IF HasCycle(D).found
  THEN InstallDet(D) /\ det_pc' = "victims"
  ELSE /\ det_pc' = "sleep"
       /\ waits_for' = [t \in AllTxns |-> NoEdges]
       /\ txn_set' = {}
       /\ safe_set' = {}
       /\ map_txn_oid' = [t \in AllTxns |-> NoResource]
       /\ map_txn_rid' = [t \in AllTxns |-> NoResource]

\* one queue is scanned under its latch, the tables before the rows; after
\* the last one the map latches are released
DetectorScan(kind, res) ==
  /\ det_pc = "scan"
  /\ <<kind, res>> \in det_todo
  /\ kind = "row" => \A q \in det_todo : q[1] = "row"
  /\ det_todo' = det_todo \ {<<kind, res>>}
  /\ LET D == ScanQueue(DetState, kind, res, QueueOf(LmState, kind, res).request_queue,
                        1, {})
     IN IF det_todo' = {} THEN DetectorGoesOn(D)
        ELSE InstallDet(D) /\ det_pc' = "scan"
  /\ lm_op' = NoLmOp
  /\ UNCHANGED <<txns, lmCore, bpmVars, unitVars>>

\* one turn of the loop "while (HasCycle(&txn_id))": the victim is set to
\* ABORTED, its node deleted and the queue recorded for it notified
DetectorVictim ==
  /\ det_pc = "victims"
  /\ LET h == HasCycle(DetState)
         v == h.txn_id
         L1 == [LmState EXCEPT !.txn_state[v] = "ABORTED"]
         L2 == IF map_txn_oid[v] # NoResource
               THEN NotifyAll(L1, "table", map_txn_oid[v]) ELSE L1
         L3 == IF map_txn_rid[v] # NoResource
               THEN NotifyAll(L2, "row", map_txn_rid[v]) ELSE L2
     IN /\ DetectorGoesOn(DeleteNode([DetState EXCEPT !.safe_set = h.safe], v))
        /\ txn_state' = L3.txn_state
        /\ notified' = L3.notified
  /\ lm_op' = NoLmOp
  /\ UNCHANGED <<txns, iso, tls, rls, table_q, row_q, pc, req, err, det_todo, bpmVars,
                 unitVars>>

NextLM ==
  \/ \E t \in AllTxns, m \in ModeSet, o \in Tables : LockTableCall(t, m, o)
  \/ \E t \in AllTxns, m \in ModeSet, r \in Rows : LockRowCall(t, m, r)
  \/ \E t \in AllTxns, o \in Tables : UnlockTableCall(t, o)
  \/ \E t \in AllTxns, r \in Rows : UnlockRowCall(t, r)
  \/ \E t \in AllTxns : WakeUp(t)
  \/ \E t \in AllTxns : Commit(t)
  \/ DetectorStart
  \/ \E k \in {"table", "row"}, r \in Tables \cup Rows : DetectorScan(k, r)
  \/ DetectorVictim

IsoSet == SeqToSet(IsoLevels)

\* the transactions of the runs of the whole lock manager
LMTxns == 1 .. MaxTxns

InitLM ==
  /\ InitPool(PoolSize) /\ NoUnitRuns
  /\ \E levels \in [AllTxns -> IsoSet] :
       /\ \A t \in AllTxns \ LMTxns : levels[t] = "REPEATABLE_READ"
       /\ InitLockManager(LMTxns, levels)

SpecLM == InitLM /\ [][NextLM]_vars

(***************************************************************************)
(* Properties of the lock manager.                                         *)
(***************************************************************************)
Queues == {<<"table", o>> : o \in Tables} \cup {<<"row", r>> : r \in Rows}

RequestQueue(kind, res) == QueueOf(LmState, kind, res).request_queue

\* the compatible pairs of modes, each pair as the set of its modes
CompatiblePairs ==
  {{"IS"}, {"IS", "IX"}, {"IS", "S"}, {"IS", "SIX"}, {"IX"}, {"S"}}

GrantedCompatible(rq) ==
  \A i, j \in 1 .. Len(rq) :
    (rq[i].granted /\ rq[j].granted /\ rq[i].txn_id # rq[j].txn_id)
      => Compatible(rq[i].lock_mode, rq[j].lock_mode)

\* C1: in every table queue and every row queue any two granted requests of
\* different transactions have compatible modes, and the compatible pairs of
\* the matrix are exactly IS-IS, IS-IX, IS-S, IS-SIX, IX-IX and S-S.
C1_GrantedCompatible ==
  /\ \A q \in Queues : GrantedCompatible(RequestQueue(q[1], q[2]))
  /\ \A a, b \in ModeSet : Compatible(a, b) <=> ({a, b} \in CompatiblePairs)

\* C1 witness: two transactions hold granted locks on one table while
\* on a row of it one of them holds a lock and the other waits behind it.
C1_Witness ==
  \E o \in Tables, r \in Rows :
    /\ TableOf(r) = o
    /\ \E i, j \in 1 .. Len(table_q[o].request_queue) :
         /\ table_q[o].request_queue[i].granted
         /\ table_q[o].request_queue[j].granted
         /\ table_q[o].request_queue[i].txn_id # table_q[o].request_queue[j].txn_id
    /\ \E i, j \in 1 .. Len(row_q[r].request_queue) :
         row_q[r].request_queue[i].granted /\ ~row_q[r].request_queue[j].granted

\* the transactions waiting inside an upgrade on the queue
PendingUpgraders(kind, res) ==
  {t \in AllTxns : pc[t] = "wait" /\ req[t].kind = kind /\ req[t].res = res /\ req[t].upgrade}

\* the lock call on the queue, as LockTableCall and LockRowCall make it
LockCall(kind, t, lock_mode, res) ==
  IF kind = "table" THEN LockTable(LmState, t, lock_mode, res)
  ELSE LockRow(LmState, t, lock_mode, TableOf(res), res)

\* the request gets past the checks made before the queue is looked at
PassesChecks(kind, t, lock_mode, res) ==
  /\ IsolationCheck(iso[t], txn_state[t], lock_mode) = "none"
  /\ kind = "row" =>
       /\ lock_mode \in RowModes
       /\ HoldsTable(LmState, t,
                     IF lock_mode = "X" THEN {"X", "IX", "SIX"} ELSE ModeSet, TableOf(res))

IsolationRule(level, state, lock_mode) ==
  IF level = "READ_UNCOMMITTED" /\ lock_mode \in {"S", "IS", "SIX"}
  THEN "LOCK_SHARED_ON_READ_UNCOMMITTED"
  ELSE IF state = "SHRINKING"
          /\ \/ level = "READ_UNCOMMITTED"
             \/ level = "REPEATABLE_READ"
             \/ level = "READ_COMMITTED" /\ lock_mode \notin {"IS", "S"}
  THEN "LOCK_ON_SHRINKING"
  ELSE "none"

\* a lock call of t follows the rules: a request they refuse fails with
\* their reason, t is ABORTED and no queue has changed; a request they let
\* pass does not fail with one of their reasons, and when it is t's first
\* request on the resource (for a row: with the table lock present) it is
\* in the queue afterwards
FollowsRule(kind, t, lock_mode, res) ==
  LET rule == IsolationRule(iso[t], txn_state[t], lock_mode)
      L == LockCall(kind, t, lock_mode, res)
  IN IF rule # "none"
     THEN /\ L.err[t] = rule
          /\ L.txn_state[t] = "ABORTED"
          /\ L.table_q = table_q /\ L.row_q = row_q
     ELSE /\ L.err[t] \notin {"LOCK_SHARED_ON_READ_UNCOMMITTED", "LOCK_ON_SHRINKING"}
          /\ (RequestPos(RequestQueue(kind, res), t) = 0
              /\ PassesChecks(kind, t, lock_mode, res))
             => /\ L.txn_state[t] = txn_state[t]
                /\ LET rq == QueueOf(L, kind, res).request_queue
                   IN /\ RequestPos(rq, t) # 0
                      /\ rq[RequestPos(rq, t)].lock_mode = lock_mode

\* C10 as stated: LockTable and LockRow alike follow the rules for a
\* request of any of the five modes.
C10_AsClaimed ==
  \A q \in Queues, t \in txns, m \in ModeSet :
    (CanCall(t) /\ Active(t)) => FollowsRule(q[1], t, m, q[2])

\* C10: LockTable follows the rules of isolation level and state for every
\* mode, and LockRow follows them for the modes S and X (a row request of
\* IS, IX or SIX fails before them with ATTEMPTED_INTENTION_LOCK_ON_ROW).
C10_IsolationAdmission ==
  \A q \in Queues, t \in txns, m \in ModeSet :
    (CanCall(t) /\ Active(t))
      => IF q[1] = "row" /\ m \notin RowModes
         THEN LET L == LockCall("row", t, m, q[2])
              IN /\ L.err[t] = "ATTEMPTED_INTENTION_LOCK_ON_ROW"
                 /\ L.txn_state[t] = "ABORTED"
                 /\ L.table_q = table_q /\ L.row_q = row_q
         ELSE FollowsRule(q[1], t, m, q[2])

\* C10 witness: one transaction under READ_UNCOMMITTED was aborted
\* for a shared request and another one for a request made in SHRINKING.
C10_Witness ==
  \E t1, t2 \in txns :
    /\ iso[t1] = "READ_UNCOMMITTED"
    /\ txn_state[t1] = "ABORTED" /\ err[t1] = "LOCK_SHARED_ON_READ_UNCOMMITTED"
    /\ iso[t2] = "READ_COMMITTED"
    /\ txn_state[t2] = "ABORTED" /\ err[t2] = "LOCK_ON_SHRINKING"

\* the table modes that allow a row lock of the given mode
TableModesFor(lock_mode) == IF lock_mode = "X" THEN {"X", "IX", "SIX"} ELSE ModeSet

\* the call failed: t is ABORTED for the reason and no row queue has changed
RowCallFailed(L, t, reason) ==
  /\ L.err[t] = reason
  /\ L.txn_state[t] = "ABORTED"
  /\ L.row_q = row_q

\* what C11 says of LockRow(t, lock_mode, rid), the table-lock rule applied
\* to the requests for which isolation_first does not make an exception
RowRule(t, lock_mode, rid, isolation_first) ==
  LET L == LockRow(LmState, t, lock_mode, TableOf(rid), rid)
  IN IF lock_mode \notin RowModes
     THEN RowCallFailed(L, t, "ATTEMPTED_INTENTION_LOCK_ON_ROW")
     ELSE IF isolation_first /\ IsolationCheck(iso[t], txn_state[t], lock_mode) # "none"
     THEN RowCallFailed(L, t, IsolationCheck(iso[t], txn_state[t], lock_mode))
     ELSE IF ~HoldsTable(LmState, t, TableModesFor(lock_mode), TableOf(rid))
     THEN RowCallFailed(L, t, "TABLE_LOCK_NOT_PRESENT")
     ELSE L.err[t] # "TABLE_LOCK_NOT_PRESENT"

\* C11 as stated: a row request of IS, IX or SIX fails with
\* ATTEMPTED_INTENTION_LOCK_ON_ROW, and a row request of S or X made without
\* the table lock it needs fails with TABLE_LOCK_NOT_PRESENT, whatever the
\* isolation level and state.
C11_AsClaimed ==
  \A t \in txns, m \in ModeSet, r \in Rows :
    (CanCall(t) /\ Active(t)) => RowRule(t, m, r, FALSE)

\* C11: a row request of IS, IX or SIX always fails with
\* ATTEMPTED_INTENTION_LOCK_ON_ROW; a row request of S or X that the checks
\* of isolation level and state let pass fails with TABLE_LOCK_NOT_PRESENT
\* unless the transaction holds a table lock of a mode the row mode needs
\* (one the checks refuse fails with their reason); each failure sets the
\* transaction to ABORTED and leaves the row queues unchanged.
C11_RowLockRules ==
  \A t \in txns, m \in ModeSet, r \in Rows :
    (CanCall(t) /\ Active(t)) => RowRule(t, m, r, TRUE)

\* C11 witness: one transaction was aborted for a row lock without the
\* table lock and the other for an intention lock on a row, and the row's
\* queue holds no request of either.
C11_Witness ==
  \E t1, t2 \in txns, r \in Rows :
    /\ txn_state[t1] = "ABORTED" /\ err[t1] = "TABLE_LOCK_NOT_PRESENT"
    /\ txn_state[t2] = "ABORTED" /\ err[t2] = "ATTEMPTED_INTENTION_LOCK_ON_ROW"
    /\ RequestPos(row_q[r].request_queue, t1) = 0
    /\ RequestPos(row_q[r].request_queue, t2) = 0

\* the unlock call on the queue, as UnlockTableCall and UnlockRowCall make it
UnlockCall(kind, t, res) ==
  IF kind = "table" THEN UnlockTable(LmState, t, res)
  ELSE UnlockRow(LmState, t, TableOf(res), res)

\* the mode of t's granted request in the queue
HeldMode(kind, t, res) ==
  LET rq == RequestQueue(kind, res) IN rq[GrantedPos(rq, t)].lock_mode

\* t's unlock of the resource returns true
UnlockSucceeds(kind, t, res) ==
  /\ GrantedPos(RequestQueue(kind, res), t) # 0
  /\ UnlockCall(kind, t, res).err[t] = "none"

\* C12: a successful UnlockTable or UnlockRow that releases an S lock under
\* REPEATABLE_READ, or an X lock under any isolation level, leaves a GROWING
\* (or SHRINKING) transaction SHRINKING and a COMMITTED or ABORTED one in
\* its state.
C12_UnlockShrinks ==
  \A q \in Queues, t \in txns :
    (/\ CanCall(t)
     /\ UnlockSucceeds(q[1], t, q[2])
     /\ \/ HeldMode(q[1], t, q[2]) = "X"
        \/ HeldMode(q[1], t, q[2]) = "S" /\ iso[t] = "REPEATABLE_READ")
    => UnlockCall(q[1], t, q[2]).txn_state[t] =
         IF txn_state[t] \in {"COMMITTED", "ABORTED"} THEN txn_state[t] ELSE "SHRINKING"

\* C12 witness: a GROWING transaction under REPEATABLE_READ has just
\* released an S lock and is SHRINKING.
C12_Witness ==
  /\ lm_op.op = "unlock" /\ lm_op.lock_mode = "S" /\ lm_op.before = "GROWING"
  /\ iso[lm_op.txn] = "REPEATABLE_READ"
  /\ txn_state[lm_op.txn] = "SHRINKING"

\* C13 as stated: a successful unlock of an S lock under READ_COMMITTED, or
\* of a lock of any mode under READ_UNCOMMITTED, leaves a GROWING
\* transaction GROWING.
C13_AsClaimed ==
  \A q \in Queues, t \in txns :
    (/\ CanCall(t)
     /\ UnlockSucceeds(q[1], t, q[2])
     /\ txn_state[t] = "GROWING"
     /\ \/ HeldMode(q[1], t, q[2]) = "S" /\ iso[t] = "READ_COMMITTED"
        \/ iso[t] = "READ_UNCOMMITTED")
    => UnlockCall(q[1], t, q[2]).txn_state[t] = "GROWING"

\* C13: a successful unlock of an S lock under READ_COMMITTED, or of a lock
\* of a mode other than X under READ_UNCOMMITTED, leaves a GROWING
\* transaction GROWING; the unlock of an X lock under READ_UNCOMMITTED
\* makes it SHRINKING.
C13_UnlockKeepsGrowing ==
  \A q \in Queues, t \in txns :
    (/\ CanCall(t)
     /\ UnlockSucceeds(q[1], t, q[2])
     /\ txn_state[t] = "GROWING")
    => /\ (\/ HeldMode(q[1], t, q[2]) = "S" /\ iso[t] = "READ_COMMITTED"
           \/ HeldMode(q[1], t, q[2]) # "X" /\ iso[t] = "READ_UNCOMMITTED")
          => UnlockCall(q[1], t, q[2]).txn_state[t] = "GROWING"
       /\ (HeldMode(q[1], t, q[2]) = "X" /\ iso[t] = "READ_UNCOMMITTED")
          => UnlockCall(q[1], t, q[2]).txn_state[t] = "SHRINKING"

\* C13 witness: a GROWING transaction under READ_COMMITTED has just
\* released an S lock and is still GROWING.
C13_Witness ==
  /\ lm_op.op = "unlock" /\ lm_op.lock_mode = "S" /\ lm_op.before = "GROWING"
  /\ iso[lm_op.txn] = "READ_COMMITTED"
  /\ txn_state[lm_op.txn] = "GROWING"

\* the lock call returns true at once
LockSucceeds(kind, t, lock_mode, res) ==
  LET L == LockCall(kind, t, lock_mode, res)
  IN L.err[t] = "none" /\ L.pc[t] = "idle"

\* the lock call throws: t is ABORTED and no queue has changed
LockFails(kind, t, lock_mode, res) ==
  LET L == LockCall(kind, t, lock_mode, res)
  IN /\ L.err[t] # "none"
     /\ L.txn_state[t] = "ABORTED"
     /\ L.table_q = table_q /\ L.row_q = row_q

\* C14 as stated: under REPEATABLE_READ no lock call that follows a
\* successful unlock, of whatever mode, succeeds.
C14_AsClaimed ==
  (lm_op.op = "unlock" /\ iso[lm_op.txn] = "REPEATABLE_READ"
     /\ CanCall(lm_op.txn) /\ Active(lm_op.txn))
    => \A q \in Queues, m \in ModeSet : ~LockSucceeds(q[1], lm_op.txn, m, q[2])

\* a REPEATABLE_READ transaction that releases S or X turns SHRINKING, and
\* while it is SHRINKING each of its lock calls fails
ShrinkingLocksNothing ==
  \A t \in txns :
    (iso[t] = "REPEATABLE_READ" /\ CanCall(t) /\ Active(t))
      => /\ \A q \in Queues :
              (UnlockSucceeds(q[1], t, q[2]) /\ HeldMode(q[1], t, q[2]) \in {"S", "X"})
                => UnlockCall(q[1], t, q[2]).txn_state[t] = "SHRINKING"
         /\ txn_state[t] = "SHRINKING"
              => \A q \in Queues, m \in ModeSet : LockFails(q[1], t, m, q[2])

\* a SHRINKING transaction never grows again
ShrinkingStays ==
  \A t \in txns :
    txn_state[t] = "SHRINKING" => txn_state'[t] \in {"SHRINKING", "COMMITTED", "ABORTED"}

\* C14: under REPEATABLE_READ, after a transaction's first successful unlock
\* of an S or X lock the transaction is SHRINKING until it ends, and no
\* LockTable or LockRow call it makes while SHRINKING succeeds: each fails,
\* setting it to ABORTED (the unlock of an IS, IX or SIX lock leaves it
\* GROWING and able to lock).
C14_NoLockAfterUnlock == [](ShrinkingLocksNothing) /\ [][ShrinkingStays]_vars

\* C14 witness: a REPEATABLE_READ transaction was aborted for a lock call
\* made in SHRINKING, while the other one holds a lock.
C14_Witness ==
  \E t, u \in txns :
    /\ iso[t] = "REPEATABLE_READ"
    /\ txn_state[t] = "ABORTED" /\ err[t] = "LOCK_ON_SHRINKING"
    /\ u # t
    /\ \E q \in Queues : GrantedPos(RequestQueue(q[1], q[2]), u) # 0

\* t holds an S or X lock on a row of the table
HoldsRowOf(t, oid) == \E r \in rls[t]["S"] \cup rls[t]["X"] : TableOf(r) = oid

\* the unlock threw: t is ABORTED for the reason, queues and lock sets are
\* as they were
UnlockFailed(L, t, reason) ==
  /\ L.err[t] = reason
  /\ L.txn_state[t] = "ABORTED"
  /\ L.table_q = table_q /\ L.row_q = row_q
  /\ L.tls = tls /\ L.rls = rls

\* the unlock returned true: t's granted request has left its queue, the
\* resource has left t's set of the request's mode, nothing else in queues
\* and lock sets has changed
UnlockRemoved(L, kind, t, res) ==
  LET q == QueueOf(LmState, kind, res)
      pos == GrantedPos(q.request_queue, t)
      lock_mode == q.request_queue[pos].lock_mode
  IN /\ L.err[t] = "none"
     /\ QueueOf(L, kind, res) = [q EXCEPT !.request_queue = RemoveAt(@, pos)]
     /\ kind = "table" =>
          /\ L.row_q = row_q /\ L.rls = rls
          /\ \A o \in Tables \ {res} : L.table_q[o] = table_q[o]
          /\ res \in tls[t][lock_mode]
          /\ L.tls = [tls EXCEPT ![t][lock_mode] = @ \ {res}]
     /\ kind = "row" =>
          /\ L.table_q = table_q /\ L.tls = tls
          /\ \A r \in AllRows \ {res} : L.row_q[r] = row_q[r]
          /\ res \in rls[t][lock_mode]
          /\ L.rls = [rls EXCEPT ![t][lock_mode] = @ \ {res}]

\* what C15 says of an unlock call; rows_first tells whether the test of the
\* row locks comes before the search for the granted table request
UnlockRule(kind, t, res, rows_first) ==
  LET L == UnlockCall(kind, t, res)
      held == GrantedPos(RequestQueue(kind, res), t) # 0
      rows == kind = "table" /\ HoldsRowOf(t, res)
  IN IF rows_first /\ rows /\ table_q[res].present
     THEN UnlockFailed(L, t, "TABLE_UNLOCKED_BEFORE_UNLOCKING_ROWS")
     ELSE IF ~held THEN UnlockFailed(L, t, "ATTEMPTED_UNLOCK_BUT_NO_LOCK_HELD")
     ELSE IF rows THEN UnlockFailed(L, t, "TABLE_UNLOCKED_BEFORE_UNLOCKING_ROWS")
     ELSE UnlockRemoved(L, kind, t, res)

UpgradePaths ==
  {<<"IS", "S">>, <<"IS", "X">>, <<"IS", "IX">>, <<"IS", "SIX">>,
   <<"S", "X">>, <<"S", "SIX">>, <<"IX", "X">>, <<"IX", "SIX">>, <<"SIX", "X">>}

\* the call changed neither queues nor lock sets
QueuesAndSetsKept(L) ==
  /\ L.table_q = table_q /\ L.row_q = row_q
  /\ L.tls = tls /\ L.rls = rls

\* the call took the request as an upgrade: the old request has made place
\* for one of the new mode, which is granted or waited for under the marker
AcceptedAsUpgrade(L, kind, t, lock_mode, res) ==
  LET q == QueueOf(L, kind, res)
      rq == q.request_queue
      n == {i \in 1 .. Len(rq) : rq[i].txn_id = t}
  IN /\ L.err[t] = "none"
     /\ L.txn_state[t] = txn_state[t]
     /\ Cardinality(n) = 1
     /\ \A i \in n : rq[i].lock_mode = lock_mode
     /\ Len(rq) = Len(RequestQueue(kind, res))
     /\ IF L.pc[t] = "idle"
        THEN /\ \A i \in n : rq[i].granted
             /\ q.upgrading = INVALID_TXN_ID
        ELSE /\ \A i \in n : ~rq[i].granted
             /\ q.upgrading = t
             /\ L.req[t].upgrade

\* the call failed with the given reason, the queues staying as they were
UpgradeRefused(L, t, reason) ==
  /\ L.err[t] = reason /\ L.txn_state[t] = "ABORTED"
  /\ QueuesAndSetsKept(L)

\* what C16 says of a lock call by a transaction with a request in the
\* queue; conflict_first tells whether a change of mode off the upgrade
\* paths is answered with UPGRADE_CONFLICT when the marker is set
UpgradeRule(kind, t, lock_mode, res, conflict_first) ==
  LET L == LockCall(kind, t, lock_mode, res)
      held == HeldMode(kind, t, res)
      marked == QueueOf(LmState, kind, res).upgrading # INVALID_TXN_ID
  IN IF lock_mode = held
     THEN /\ L.err[t] = "none" /\ L.pc[t] = "idle"
          /\ L.txn_state[t] = txn_state[t]
          /\ QueuesAndSetsKept(L)
     ELSE IF <<held, lock_mode>> \notin UpgradePaths
     THEN IF conflict_first /\ marked
          THEN UpgradeRefused(L, t, "UPGRADE_CONFLICT")
          ELSE UpgradeRefused(L, t, "INCOMPATIBLE_UPGRADE")
     ELSE IF marked
          THEN UpgradeRefused(L, t, "UPGRADE_CONFLICT")
          ELSE AcceptedAsUpgrade(L, kind, t, lock_mode, res)

\* t has a request in the queue and its lock call gets to the queue
AsksAgain(kind, t, lock_mode, res) ==
  /\ CanCall(t) /\ Active(t)
  /\ GrantedPos(RequestQueue(kind, res), t) # 0
  /\ PassesChecks(kind, t, lock_mode, res)

\* C16 as stated: a request for the mode already held returns true and
\* changes nothing, a change of mode along an upgrade path is accepted as
\* an upgrade, and every other change of mode fails with
\* INCOMPATIBLE_UPGRADE, the grant staying in the queue.
C16_AsClaimed ==
  \A q \in Queues, t \in txns, m \in ModeSet :
    AsksAgain(q[1], t, m, q[2]) => UpgradeRule(q[1], t, m, q[2], FALSE)

\* C16: a request for the mode already held returns true and changes
\* nothing; a request for another mode made while the queue's upgrading
\* marker is set fails with UPGRADE_CONFLICT; otherwise a change along an
\* upgrade path is accepted as an upgrade and every other change fails with
\* INCOMPATIBLE_UPGRADE; a failure sets the transaction to ABORTED and
\* leaves its grant in the queue.
C16_UpgradeRules ==
  \A q \in Queues, t \in txns, m \in ModeSet :
    AsksAgain(q[1], t, m, q[2]) => UpgradeRule(q[1], t, m, q[2], TRUE)

\* C16 witness: a transaction was aborted with INCOMPATIBLE_UPGRADE and its
\* earlier request is still granted in the queue.
C16_Witness ==
  \E q \in Queues, t \in txns :
    /\ txn_state[t] = "ABORTED" /\ err[t] = "INCOMPATIBLE_UPGRADE"
    /\ GrantedPos(RequestQueue(q[1], q[2]), t) # 0

(***************************************************************************)
(* The queue of one table under MaxQueueTxns transactions: lock and unlock *)
(* calls and the waiters' wake-ups, without rows and without the detector. *)
(***************************************************************************)
\* the transactions of the runs on one table queue
QueueTxns == 1 .. MaxQueueTxns

NextQueue ==
  \/ \E t \in QueueTxns, m \in ModeSet, o \in Tables : LockTableCall(t, m, o)
  \/ \E t \in QueueTxns, o \in Tables : UnlockTableCall(t, o)
  \/ \E t \in QueueTxns : WakeUp(t)

InitQueue ==
  /\ InitPool(PoolSize) /\ NoUnitRuns
  /\ \E level \in IsoSet :
       InitLockManager(QueueTxns, [t \in AllTxns |->
                                    IF t \in QueueTxns THEN level ELSE "REPEATABLE_READ"])

SpecQueue == InitQueue /\ [][NextQueue]_vars

\* no request of the queue is granted behind a request that is not
GrantedPrefix(rq) ==
  \A i, j \in 1 .. Len(rq) : (i < j /\ rq[j].granted) => rq[i].granted

\* every request ahead of position n is granted and compatible with the
\* request at n
AheadGrantedCompatible(rq, n) ==
  \A i \in 1 .. (n - 1) :
    rq[i].granted /\ Compatible(rq[i].lock_mode, rq[n].lock_mode)

\* what a step does to the request of t in a queue that was rq and is now
\* rq2: a request that has become granted has only granted, compatible
\* requests ahead; a new request stands last; a request of another mode,
\* which is an upgrade, stands behind every granted request and ahead of
\* every other one that is not granted
GrantOrder(rq, rq2, t) ==
  LET n == RequestPos(rq, t)
      n2 == RequestPos(rq2, t)
  IN n2 # 0 =>
       /\ (rq2[n2].granted /\ (n = 0 \/ ~rq[n].granted \/ rq[n].lock_mode # rq2[n2].lock_mode))
            => AheadGrantedCompatible(rq2, n2)
       /\ n = 0 => n2 = Len(rq2)
       /\ (n # 0 /\ rq[n].lock_mode # rq2[n2].lock_mode)
            => /\ \A i \in 1 .. (n2 - 1) : rq2[i].granted
               /\ \A i \in (n2 + 1) .. Len(rq2) : ~rq2[i].granted

GrantOrderStep ==
  \A q \in Queues, t \in AllTxns :
    GrantOrder(RequestQueue(q[1], q[2]), RequestQueue(q[1], q[2])', t)

GrantedPrefixes == \A q \in Queues : GrantedPrefix(RequestQueue(q[1], q[2]))

\* C17: in every queue the granted requests stand ahead of the waiting
\* ones; a request becomes granted only when every request ahead of it is
\* granted and compatible with it; a new request is put last, so that new
\* requests are granted in arrival order; an upgrade request is put behind
\* every granted request and ahead of every waiting one.
C17_GrantOrder == [](GrantedPrefixes) /\ [][GrantOrderStep]_vars

\* C17 witness: an upgrade request waits behind a granted request and ahead
\* of a waiting request that arrived before it.
C17_Witness ==
  \E o \in Tables :
    LET rq == table_q[o].request_queue
    IN \E i, j, k \in 1 .. Len(rq) :
         /\ i < j /\ j < k
         /\ rq[i].granted /\ ~rq[j].granted /\ ~rq[k].granted
         /\ table_q[o].upgrading = rq[j].txn_id
         /\ req[rq[j].txn_id].upgrade

\* the scheduler lets a notified waiter run: a thread woken from cv_.wait
\* gets the latch in the end
QueueFairness == \A t \in LMTxns : WF_vars(WakeUp(t))

\* the table queue under the transactions LMTxns, all of one level
InitQueueFair ==
  /\ InitPool(PoolSize) /\ NoUnitRuns
  /\ \E level \in IsoSet :
       InitLockManager(LMTxns, [t \in AllTxns |->
                                 IF t \in LMTxns THEN level ELSE "REPEATABLE_READ"])

SpecQueueFair == InitQueueFair /\ [][NextQueue]_vars /\ QueueFairness

\* t waits on table o and its request is the first one that is not granted
HeadWaiter(t, o) ==
  /\ pc[t] = "wait" /\ req[t].kind = "table" /\ req[t].res = o
  /\ LET rq == table_q[o].request_queue
     IN FirstUngranted(rq) = RequestPos(rq, t)

\* t is the head waiter of o and no granted request is incompatible with
\* the mode it waits for
Unblocked(t, o) ==
  /\ HeadWaiter(t, o)
  /\ LET rq == table_q[o].request_queue
     IN \A i \in 1 .. Len(rq) :
          rq[i].granted => Compatible(rq[i].lock_mode, req[t].lock_mode)

\* the call of t has returned true: t holds lock_mode on o
ReturnedWith(t, o, lock_mode) ==
  /\ pc[t] = "idle" /\ err[t] = "none"
  /\ o \in tls[t][lock_mode]
  /\ LET rq == table_q[o].request_queue
     IN GrantedPos(rq, t) # 0 /\ rq[GrantedPos(rq, t)].lock_mode = lock_mode

\* a waiter is never left asleep with nothing in its way, and a waiting
\* upgrader stays asleep while another transaction's grant is incompatible
NoLostWakeUp ==
  \A t \in txns, o \in Tables :
    /\ Unblocked(t, o) => notified[t]
    /\ (pc[t] = "wait" /\ req[t].kind = "table" /\ req[t].res = o /\ ~Unblocked(t, o))
         => ~GrantLock(table_q[o].request_queue, t)

\* an upgrader to lock_mode that nothing blocks gets the lock
UpgraderGranted(t, o, lock_mode) ==
  (Unblocked(t, o) /\ req[t].upgrade /\ req[t].lock_mode = lock_mode)
    ~> ReturnedWith(t, o, lock_mode)

\* a head waiter that nothing blocks does not stay waiting: its call returns
\* true, unless an upgrade put ahead of it has taken the lock first
HeadWaiterServed(t, o) ==
  Unblocked(t, o) ~> (ReturnedWith(t, o, req[t].lock_mode) \/ ~Unblocked(t, o))

DeadlockRows == 1 .. MaxDeadlockRows

NextDeadlock ==
  \/ \E t \in LMTxns, o \in Tables : LockTableCall(t, "IX", o)
  \/ \E t \in LMTxns, r \in DeadlockRows : LockRowCall(t, "X", r)
  \/ \E t \in LMTxns, r \in DeadlockRows : UnlockRowCall(t, r)
  \/ \E t \in LMTxns, o \in Tables : UnlockTableCall(t, o)
  \/ \E t \in LMTxns : WakeUp(t)
  \/ DetectorStart
  \/ \E k \in {"table", "row"}, r \in Tables \cup AllRows : DetectorScan(k, r)
  \/ DetectorVictim

InitDeadlock ==
  /\ InitPool(PoolSize) /\ NoUnitRuns
  /\ InitLockManager(LMTxns, [t \in AllTxns |-> "REPEATABLE_READ"])

\* the detector's thread has a step to take: it sleeps while a transaction
\* waits, or it is inside a round
DetectorEnabled ==
  \/ det_pc = "sleep" /\ \E t \in txns : pc[t] = "wait"
  \/ det_pc \in {"scan", "victims"}

DetectorStep ==
  \/ DetectorStart
  \/ \E k \in {"table", "row"}, r \in Tables \cup AllRows : DetectorScan(k, r)
  \/ DetectorVictim

\* the detector's thread wakes up at every interval and runs its round to
\* the end (weak fairness of its steps, with the condition under which it
\* has a step written out), and a notified waiter gets the latch in the end
DeadlockFairness ==
  /\ \A t \in LMTxns : WF_vars(WakeUp(t))
  /\ ([]<>(~DetectorEnabled) \/ []<><<DetectorStep>>_vars)

SpecDeadlock == InitDeadlock /\ [][NextDeadlock]_vars /\ DeadlockFairness

\* t waits for X on row rid
WaitsForRow(t, rid) ==
  /\ pc[t] = "wait" /\ req[t].kind = "row" /\ req[t].res = rid
  /\ req[t].lock_mode = "X"

\* t holds X on row rid
HoldsRowX(t, rid) ==
  /\ rid \in rls[t]["X"]
  /\ GrantedPos(row_q[rid].request_queue, t) # 0

\* a holds X on ra and waits for rb, b holds X on rb and waits for ra
Deadlock(a, b, ra, rb) ==
  /\ a # b /\ ra # rb
  /\ HoldsRowX(a, ra) /\ WaitsForRow(a, rb)
  /\ HoldsRowX(b, rb) /\ WaitsForRow(b, ra)

\* the detector sets t to ABORTED in this step
NewlyAborted(t) ==
  /\ det_pc = "victims"
  /\ txn_state[t] # "ABORTED" /\ txn_state'[t] = "ABORTED"

\* the victim of a deadlock of two is the one with the higher id
VictimIsHigher ==
  \A a, b \in txns, ra, rb \in AllRows :
    (Deadlock(a, b, ra, rb) /\ a < b /\ \E t \in txns : NewlyAborted(t))
      => NewlyAborted(b) /\ ~NewlyAborted(a)

\* the LockRow of t has returned false: t is ABORTED, its request for rid is
\* out of the queue and it does not hold the row
ReturnedFalse(t, rid) ==
  /\ txn_state[t] = "ABORTED" /\ pc[t] = "idle"
  /\ RequestPos(row_q[rid].request_queue, t) = 0
  /\ rid \notin rls[t]["X"]

\* an aborted waiter that runs again leaves LockRow with false
VictimReturnsFalse ==
  \A t \in txns, r \in AllRows :
    (WaitsForRow(t, r) /\ txn_state[t] = "ABORTED" /\ ~WaitsForRow(t, r)')
      => ReturnedFalse(t, r)'

\* a deadlock of a and b is resolved by the abort of b, whose LockRow
\* returns false
DeadlockResolved(a, b, ra, rb) ==
  Deadlock(a, b, ra, rb) ~> (ReturnedFalse(b, ra) /\ txn_state[a] # "ABORTED")

\* the survivor a gets row rb once the victim b has let go of it
SurvivorGranted(a, b, rb) ==
  (WaitsForRow(a, rb) /\ txn_state[b] = "ABORTED" /\ ~HoldsRowX(b, rb)
     /\ RequestPos(row_q[rb].request_queue, b) = 0
     /\ RequestPos(row_q[rb].request_queue, a) = 1)
    ~> (pc[a] = "idle" /\ HoldsRowX(a, rb) /\ txn_state[a] # "ABORTED")

\* C19: when two transactions each hold X on one row and wait for X on the
\* other's row, the detector aborts the one with the higher id and no other;
\* the victim's LockRow returns false with its request out of the queue; the
\* other transaction's request is granted once the victim has released the
\* row.
C19_DeadlockResolution ==
  /\ [][VictimIsHigher /\ VictimReturnsFalse]_vars
  /\ \A a, b \in LMTxns, ra, rb \in AllRows :
       a < b => DeadlockResolved(a, b, ra, rb) /\ SurvivorGranted(a, b, rb)

\* C19 witness: the detector has aborted the higher transaction of a
\* deadlock, whose LockRow has returned false; it still holds its row, for
\* which the lower transaction waits.
C19_Witness ==
  \E a, b \in txns, ra, rb \in AllRows :
    /\ a < b /\ ra # rb
    /\ HoldsRowX(a, ra) /\ WaitsForRow(a, rb)
    /\ HoldsRowX(b, rb) /\ ReturnedFalse(b, ra)
    /\ err[b] = "none"

\* C20 as stated: at every moment a transaction that holds a row lock holds
\* a table lock on the row's table, one of IS, IX, S, SIX, X for a row S
\* lock and one of IX, SIX, X for a row X lock.
C20_RowImpliesTable ==
  \A t \in txns, r \in Rows, m \in RowModes :
    r \in rls[t][m] => HoldsTable(LmState, t, TableModesFor(m), TableOf(r))

(***************************************************************************)
(* The LRU-K replacer on its own: a replacer of LruFrames frames with k_   *)
(* in LruKs, driven by record_access, set_evictable, evict and remove.     *)
(***************************************************************************)
LruFrames == 3
\* accesses of one frame that a run follows beyond the k_ th
MaxReaccess == 1

LruFrameIds == 0 .. (LruFrames - 1)
LruKs == {ReplacerK, ReplacerK + 1}

SeqWithout(seq, x) == SelectSeq(seq, LAMBDA y : y # x)

\* the trace after an access of frame_id
TraceAccess(tr, frame_id) ==
  [first |-> IF frame_id \in SeqToSet(tr.first) THEN tr.first
             ELSE Append(tr.first, frame_id),
   last |-> Append(SeqWithout(tr.last, frame_id), frame_id),
   count |-> [tr.count EXCEPT ![frame_id] = @ + 1]]

\* the trace after frame_id has left the replacer
TraceForget(tr, frame_id) ==
  [first |-> SeqWithout(tr.first, frame_id),
   last |-> SeqWithout(tr.last, frame_id),
   count |-> [tr.count EXCEPT ![frame_id] = 0]]

\* the other variables of the pool and the lock manager stay as they are
OnlyReplacer ==
  UNCHANGED <<pool_size, pages, free_list, page_table, next_page_id, disk, bpm_op,
              exit_data, lmVars, htVars, leafVars, lk>>

OnlyReplacerTraced == OnlyReplacer /\ UNCHANGED lru_run

LruRecordAccess(frame_id) ==
  /\ lru_trace.count[frame_id] < replacer.k + MaxReaccess
  /\ replacer' = LRU_RecordAccess(replacer, frame_id)
  /\ lru_trace' = TraceAccess(lru_trace, frame_id)
  /\ OnlyReplacerTraced

LruSetEvictable(frame_id, set_evictable) ==
  /\ replacer' = LRU_SetEvictable(replacer, frame_id, set_evictable)
  /\ UNCHANGED lru_trace
  /\ OnlyReplacerTraced

LruEvict ==
  LET e == LRU_Evict(replacer)
  IN /\ replacer' = e.r
     /\ lru_trace' = IF e.ok THEN TraceForget(lru_trace, e.frame_id) ELSE lru_trace
     /\ OnlyReplacerTraced

\* Remove asserts that a tracked frame is evictable
LruRemove(frame_id) ==
  /\ LRU_InMap(replacer, frame_id) => LRU_IsEvictable(replacer, frame_id)
  /\ replacer' = LRU_Remove(replacer, frame_id)
  /\ lru_trace' = TraceForget(lru_trace, frame_id)
  /\ OnlyReplacerTraced

NextLRU ==
  \/ \E f \in LruFrameIds : LruRecordAccess(f)
  \/ \E f \in LruFrameIds, b \in BOOLEAN : LruSetEvictable(f, b)
  \/ LruEvict
  \/ \E f \in LruFrameIds : LruRemove(f)

\* a pool that is not used, around a replacer of n frames with k_ = k
InitReplacer(n, k) ==
  /\ pool_size = PoolSize
  /\ pages = [f \in 0 .. (PoolSize - 1) |->
       [page_id |-> INVALID_PAGE_ID, pin_count |-> 0, is_dirty |-> FALSE, data |-> ZeroData]]
  /\ free_list = [i \in 1 .. PoolSize |-> i - 1]
  /\ page_table = HT_New(BucketSize)
  /\ replacer = LRU_New(n, k)
  /\ next_page_id = 0
  /\ disk = [p \in PageIds |-> ZeroData]
  /\ bpm_op = NoOp
  /\ exit_data = [p \in PageIds |-> NotEvicted]

InitLRU ==
  /\ \E k \in LruKs : InitReplacer(LruFrames, k)
  /\ NoTransactions
  /\ lru_trace = NoTrace(LruFrameIds)
  /\ lru_run = NoRun
  /\ table = HT_New(BucketSize)
  /\ table_map = <<>>
  /\ leaf = <<>>
  /\ sibling = <<>>
  /\ lk = NoLatchHeld

SpecLRU == InitLRU /\ [][NextLRU]_vars

\* the frames the callers have made evictable, with fewer than k_ accesses
\* (young) and with k_ or more
EvictableYoung ==
  {f \in LruFrameIds : LRU_IsEvictable(replacer, f) /\ lru_trace.count[f] < replacer.k}

EvictableOld ==
  {f \in LruFrameIds : LRU_IsEvictable(replacer, f) /\ lru_trace.count[f] >= replacer.k}

\* the frame of set that stands first in seq
OldestOf(seq, set) == seq[Min({i \in 1 .. Len(seq) : seq[i] \in set})]

\* C21: evict returns the evictable frame with fewer than K accesses whose
\* first access is the oldest, and when there is none the evictable frame
\* (with K accesses or more) whose latest access is the oldest; it returns
\* false when no frame is evictable; the evicted frame is no longer tracked
\* and size() is one less.
C21_EvictOrder ==
  LET e == LRU_Evict(replacer)
  IN /\ e.ok <=> (EvictableYoung \cup EvictableOld # {})
     /\ EvictableYoung # {} => e.frame_id = OldestOf(lru_trace.first, EvictableYoung)
     /\ (EvictableYoung = {} /\ EvictableOld # {})
          => e.frame_id = OldestOf(lru_trace.last, EvictableOld)
     /\ e.ok => /\ ~LRU_InMap(e.r, e.frame_id)
                /\ LRU_Size(e.r) = LRU_Size(replacer) - 1
                /\ \A f \in LruFrameIds \ {e.frame_id} :
                     LRU_InMap(e.r, f) <=> LRU_InMap(replacer, f)
     /\ ~e.ok => e.r = replacer

\* C21 witness: an evict has just taken a frame of the cache list: the
\* history list holds a frame that is not evictable, and the evictable frame
\* of the cache list whose latest access is older than another one's went.
C21_Witness ==
  /\ replacer.history_list # <<>>
  /\ \A i \in 1 .. Len(replacer.history_list) : ~replacer.history_list[i].evictable_
  /\ \E i \in 1 .. Len(replacer.cache_list) : replacer.cache_list[i].evictable_
  /\ \E f \in LruFrameIds : lru_trace.count[f] = 0 /\ ~LRU_InMap(replacer, f)
  /\ Len(lru_trace.first) = LruFrames - 1

(***************************************************************************)
(* The replacer under one fixed sequence of accesses: record_access on     *)
(* the frames of Scenario in order, set_evictable(true) on a tracked frame *)
(* at any moment, and evict calls once every frame is evictable.           *)
(***************************************************************************)
Scenario == <<1, 2, 3, 4, 5, 6, 1, 2, 3, 4, 5, 6, 7>>
ScenarioFrames == SeqToSet(Scenario)
\* RecordAccess asserts frame_id < replacer_size_
ScenarioCapacity == Max(ScenarioFrames) + 1

ScnRecordAccess ==
  /\ lru_run.step < Len(Scenario)
  /\ replacer' = LRU_RecordAccess(replacer, Scenario[lru_run.step + 1])
  /\ lru_run' = [lru_run EXCEPT !.step = @ + 1]
  /\ UNCHANGED lru_trace
  /\ OnlyReplacer

ScnSetEvictable(frame_id) ==
  /\ lru_run.evicted = <<>>
  /\ LRU_InMap(replacer, frame_id)
  /\ ~LRU_IsEvictable(replacer, frame_id)
  /\ replacer' = LRU_SetEvictable(replacer, frame_id, TRUE)
  /\ UNCHANGED <<lru_trace, lru_run>>
  /\ OnlyReplacer

ScnEvict ==
  LET e == LRU_Evict(replacer)
  IN /\ lru_run.step = Len(Scenario)
     /\ Len(lru_run.evicted) < Cardinality(ScenarioFrames)
     /\ \A f \in ScenarioFrames \ SeqToSet(lru_run.evicted) : LRU_IsEvictable(replacer, f)
     /\ replacer' = e.r
     /\ lru_run' = [lru_run EXCEPT !.evicted = Append(@, IF e.ok THEN e.frame_id ELSE NoFrame)]
     /\ UNCHANGED lru_trace
     /\ OnlyReplacer

NextScenario ==
  \/ ScnRecordAccess
  \/ \E f \in ScenarioFrames : ScnSetEvictable(f)
  \/ ScnEvict

InitScenario ==
  /\ InitReplacer(ScenarioCapacity, ReplacerK)
  /\ NoTransactions
  /\ NoUnitRuns

SpecScenario == InitScenario /\ [][NextScenario]_vars

IsPrefix(a, b) == Len(a) <= Len(b) /\ \A i \in 1 .. Len(a) : a[i] = b[i]

\* C22 as claimed: the seven evict calls return 7,6,5,4,3,2,1 in that order.
C22_AsClaimed == IsPrefix(lru_run.evicted, <<7, 6, 5, 4, 3, 2, 1>>)

\* C22: with K=2, after record_access on 1,2,3,4,5,6,1,2,3,4,5,6,7 and
\* set_evictable(true) on all seven frames, the seven successive evict calls
\* return 7 (the one frame of the history list) and then 1,2,3,4,5,6 (the
\* frames of the cache list, least recently accessed first).
C22_ScenarioOrder == IsPrefix(lru_run.evicted, <<7, 1, 2, 3, 4, 5, 6>>)

\* C22 witness: the seven evict calls have returned
C22_Witness ==
  /\ lru_run.step = Len(Scenario)
  /\ Len(lru_run.evicted) = 7
  /\ LRU_Size(replacer) = 0

(***************************************************************************)
(* The extendible hash table on its own: a table of integers with buckets  *)
(* of TableBucketSize records under insert and remove of the keys          *)
(* 0 .. MaxKey.                                                            *)
(***************************************************************************)
TableBucketSize == 2
MaxKey == 5

TableKeys == 0 .. MaxKey

OnlyTable == UNCHANGED <<bpmVars, lmVars, lruVars, leafVars, lk>>

TableInsert(key, value) ==
  /\ table' = HT_Insert(table, key, value)
  /\ table_map' = [table_map EXCEPT ![key] = value]
  /\ OnlyTable

TableRemove(key) ==
  /\ table' = HT_Remove(table, key)
  /\ table_map' = [table_map EXCEPT ![key] = Absent]
  /\ OnlyTable

NextTable ==
  \/ \E k \in TableKeys, v \in Vals : TableInsert(k, v)
  \/ \E k \in TableKeys : TableRemove(k)

InitTable ==
  /\ InitPool(PoolSize)
  /\ NoTransactions
  /\ lru_trace = NoTrace({})
  /\ lru_run = NoRun
  /\ table = HT_New(TableBucketSize)
  /\ table_map = [k \in TableKeys |-> Absent]
  /\ leaf = <<>>
  /\ sibling = <<>>
  /\ lk = NoLatchHeld

SpecTable == InitTable /\ [][NextTable]_vars

\* the directory slots (0-based) and the bucket a slot points to
Slots(ht) == 0 .. (Len(ht.dir) - 1)
BucketAt(ht, i) == ht.buckets[ht.dir[i + 1]]
BucketKeys(b) == {b.list[i][1] : i \in 1 .. Len(b.list)}

\* C23: every key stored in a bucket of local depth d has the same low d hash
\* bits as every directory index that points to the bucket; all directory
\* slots that agree on those low d bits point to the same bucket; every local
\* depth is <= the global depth; the directory has 2^global_depth slots;
\* num_buckets is the number of distinct buckets the directory refers to and
\* is <= 2^global_depth.
C23_DirectoryInvariants ==
  /\ Len(table.dir) = Pow2(table.global_depth)
  /\ \A i \in Slots(table) :
       LET b == BucketAt(table, i)
       IN /\ b.depth <= table.global_depth
          /\ \A k \in BucketKeys(b) :
               GetKLowBit(b.depth, Hash(k)) = GetKLowBit(b.depth, i)
          /\ \A j \in Slots(table) :
               GetKLowBit(b.depth, j) = GetKLowBit(b.depth, i)
                 => table.dir[j + 1] = table.dir[i + 1]
  /\ table.num_buckets = Cardinality(SeqToSet(table.dir))
  /\ table.num_buckets = Len(table.buckets)
  /\ table.num_buckets <= Pow2(table.global_depth)

\* C23 witness: inserts have doubled the directory twice and split buckets,
\* removes have emptied a bucket, and buckets of different local depths stand
\* side by side.
C23_Witness ==
  /\ table.global_depth >= 2
  /\ table.num_buckets >= 3
  /\ \E i \in Slots(table) : BucketAt(table, i).list = <<>>
  /\ \E i, j \in Slots(table) : BucketAt(table, i).depth < BucketAt(table, j).depth
  /\ \E k \in TableKeys : table_map[k] # Absent

\* the number of records with key k in the buckets
Copies(ht, k) ==
  Cardinality({<<b, i>> \in (1 .. Len(ht.buckets)) \X (1 .. ht.bucket_size) :
                 i <= Len(ht.buckets[b].list) /\ ht.buckets[b].list[i][1] = k})

\* C24: find(k) returns the value of the latest insert(k, v) that no remove(k)
\* followed and reports absent otherwise; a key is stored once, in the bucket
\* its hash leads to; insert on a key that is present replaces its value,
\* also in a full bucket, without a split.
C24_BehavesAsMap ==
  \A k \in TableKeys :
    /\ HT_Contains(table, k) <=> table_map[k] # Absent
    /\ HT_Contains(table, k) => HT_Find(table, k) = table_map[k]
    /\ Copies(table, k) = IF table_map[k] # Absent THEN 1 ELSE 0
    /\ \A v \in Vals :
         LET after == HT_Insert(table, k, v)
         IN /\ HT_Contains(after, k) /\ HT_Find(after, k) = v
            /\ \A o \in TableKeys \ {k} :
                 /\ HT_Contains(after, o) <=> HT_Contains(table, o)
                 /\ HT_Contains(table, o) => HT_Find(after, o) = HT_Find(table, o)
            /\ HT_Contains(table, k) =>
                 /\ after.dir = table.dir
                 /\ after.num_buckets = table.num_buckets
                 /\ after.global_depth = table.global_depth

\* C24 witness: after doublings and splits a key that was inserted, removed
\* and inserted again with another value sits in a full bucket next to keys
\* inserted before the splits.
C24_Witness ==
  /\ table.global_depth >= 2
  /\ table.num_buckets >= 3
  /\ \E k \in TableKeys :
       /\ table_map[k] = MaxVal
       /\ Bucket_IsFull(table, BucketAt(table, HT_IndexOf(table, k)))
  /\ \E k \in TableKeys : table_map[k] = Absent
  /\ Cardinality({k \in TableKeys : table_map[k] # Absent}) >= 4

\* an insert of key that needs no split
FitsWithoutSplit(ht, key) == Bucket_CanInsert(ht, BucketAt(ht, HT_IndexOf(ht, key)), key)

\* C25 as claimed: insert(k, v) followed by remove(k) leaves find(k) absent
\* and num_buckets unchanged or smaller than before the insert.
C25_AsClaimed ==
  \A k \in TableKeys, v \in Vals :
    LET after == HT_Remove(HT_Insert(table, k, v), k)
    IN /\ ~HT_Contains(after, k)
       /\ after.num_buckets <= table.num_buckets

\* C25: insert(k, v) followed by remove(k) leaves find(k) absent; num_buckets
\* is never smaller than before the insert: it is unchanged when the insert
\* found room (or the key) in its bucket and larger when the insert split a
\* bucket, since remove never merges buckets.
C25_InsertRemove ==
  \A k \in TableKeys, v \in Vals :
    LET mid == HT_Insert(table, k, v)
        after == HT_Remove(mid, k)
    IN /\ ~HT_Contains(after, k)
       /\ after.num_buckets = mid.num_buckets
       /\ after.dir = mid.dir
       /\ IF FitsWithoutSplit(table, k)
          THEN after.num_buckets = table.num_buckets
          ELSE after.num_buckets > table.num_buckets

\* C25 witness: a remove has left its bucket empty, and the insert of some
\* key must split a full bucket: after that insert and the remove of the key
\* the table has more buckets than before the insert.
C25_Witness ==
  /\ table.num_buckets >= 2
  /\ \E i \in Slots(table) : BucketAt(table, i).list = <<>> /\ BucketAt(table, i).depth >= 1
  /\ \E k \in TableKeys :
       /\ ~FitsWithoutSplit(table, k)
       /\ HT_Remove(HT_Insert(table, k, 0), k).num_buckets > table.num_buckets

(***************************************************************************)
(* B+tree leaf pages.  A page is a record                                  *)
(*   [size, max_size, next_page_id, array]                                 *)
(* array the slots of the frame, array[i + 1] = <<key, value>> the slot    *)
(* array_[i]; the slots at and after size keep what was written to them.   *)
(* The frame has room for LeafSlots records.                               *)
(***************************************************************************)
LeafMaxSize == 2
MaxLeafKey == 3

LeafKeys == 1 .. MaxLeafKey
LeafSlots == LeafMaxSize + 1
LeafPageId == 1
SiblingPageId == 2

\* Init on a frame the pool has zeroed
Leaf_Init(page_id, max_size, next_id) ==
  [size |-> 0, max_size |-> max_size, next_page_id |-> next_id,
   array |-> [i \in 1 .. LeafSlots |-> <<0, ZeroData>>]]

\* ceil(max_size / 2)
Leaf_GetMinSize(p) == (p.max_size + 1) \div 2

\* std::lower_bound over array_[first .. first + len)
RECURSIVE LowerBound(_, _, _, _)
LowerBound(array, first, len, key) ==
  IF len <= 0 THEN first
  ELSE LET half == len \div 2
           mid == first + half
       IN IF array[mid + 1][1] < key
          THEN LowerBound(array, mid + 1, len - half - 1, key)
          ELSE LowerBound(array, first, half, key)

Leaf_KeyIndex(p, key) == LowerBound(p.array, 0, p.size, key)

\* array_[from .. to) moved one slot towards the back
ShiftRight(array, from, to) ==
  [i \in 1 .. Len(array) |-> IF from + 1 < i /\ i <= to + 1 THEN array[i - 1] ELSE array[i]]

\* array_[from .. to) moved one slot towards the front
ShiftLeft(array, from, to) ==
  [i \in 1 .. Len(array) |-> IF from <= i /\ i < to THEN array[i + 1] ELSE array[i]]

\* Insert without the test for an equal key
Leaf_Insert_NoDuplicateCheck(p, key, value) ==
  LET insert_position == Leaf_KeyIndex(p, key)
  IN [p EXCEPT !.array = [ShiftRight(p.array, insert_position, p.size)
                            EXCEPT ![insert_position + 1] = <<key, value>>],
               !.size = @ + 1]

Leaf_Insert(p, key, value) ==
  LET insert_position == Leaf_KeyIndex(p, key)
  IN IF insert_position = p.size
     THEN [p EXCEPT !.array[insert_position + 1] = <<key, value>>, !.size = @ + 1]
     ELSE IF p.array[insert_position + 1][1] = key
     THEN p
     ELSE [p EXCEPT !.array = [ShiftRight(p.array, insert_position, p.size)
                                 EXCEPT ![insert_position + 1] = <<key, value>>],
                    !.size = @ + 1]

Leaf_RemoveAndDeleteRecord(p, key) ==
  LET target_in_array == Leaf_KeyIndex(p, key)
  IN IF target_in_array = p.size \/ p.array[target_in_array + 1][1] # key
     THEN p
     ELSE [p EXCEPT !.array = ShiftLeft(p.array, target_in_array + 1, p.size),
                    !.size = @ - 1]

\* the loop of Lookup: the position l it ends at
RECURSIVE LookupPos(_, _, _, _)
LookupPos(array, l, r, key) ==
  IF l < r
  THEN LET mid == (l + r) \div 2
       IN IF array[mid + 1][1] >= key
          THEN LookupPos(array, l, mid, key)
          ELSE LookupPos(array, mid + 1, r, key)
  ELSE l

\* [found, value]: Lookup's result and the value it stores
Leaf_Lookup(p, key) ==
  LET l == LookupPos(p.array, 0, p.size - 1, key)
  IN IF p.array[l + 1][1] # key
     THEN [found |-> FALSE, value |-> ZeroData]
     ELSE [found |-> TRUE, value |-> p.array[l + 1][2]]

\* recipient's CopyNFrom(items, size), items the slots of array from start on
Leaf_CopyNFrom(r, array, start, n) ==
  [r EXCEPT !.array = [i \in 1 .. Len(r.array) |->
                         IF r.size < i /\ i <= r.size + n
                         THEN array[start + (i - r.size)] ELSE r.array[i]],
            !.size = @ + n]

\* [donor, recipient] after donor's MoveHalfTo(recipient)
Leaf_MoveHalfTo(p, r) ==
  LET start_split_indx == Leaf_GetMinSize(p)
  IN [donor |-> [p EXCEPT !.size = start_split_indx],
      recipient |-> Leaf_CopyNFrom(r, p.array, start_split_indx,
                                   p.max_size - start_split_indx)]

Leaf_MoveAllTo(p, r) ==
  [donor |-> [p EXCEPT !.size = 0],
   recipient |-> [Leaf_CopyNFrom(r, p.array, 0, p.size)
                    EXCEPT !.next_page_id = p.next_page_id]]

Leaf_CopyLastFrom(r, item) ==
  [r EXCEPT !.array[r.size + 1] = item, !.size = @ + 1]

Leaf_MoveFirstToEndOf(p, r) ==
  [donor |-> [p EXCEPT !.array = ShiftLeft(p.array, 1, p.size), !.size = @ - 1],
   recipient |-> Leaf_CopyLastFrom(r, p.array[1])]

Leaf_CopyFirstFrom(r, item) ==
  [r EXCEPT !.array = [ShiftRight(r.array, 0, r.size) EXCEPT ![1] = item],
            !.size = @ + 1]

Leaf_MoveLastToFrontOf(p, r) ==
  [donor |-> [p EXCEPT !.size = @ - 1],
   recipient |-> Leaf_CopyFirstFrom(r, p.array[p.size])]

\* the records of the page and its keys, in slot order
Entries(p) == SubSeq(p.array, 1, p.size)
KeysOf(p) == {p.array[i][1] : i \in 1 .. p.size}
Sorted(p) == \A i \in 1 .. (p.size - 1) : p.array[i][1] < p.array[i + 1][1]
WellFormed(p) == p.size >= 0 /\ p.size <= p.max_size /\ Sorted(p)
\* every key of p is below every key of r
Below(p, r) == \A a \in KeysOf(p), b \in KeysOf(r) : a < b

OnlyLeaves == UNCHANGED <<bpmVars, lmVars, lruVars, htVars, lk>>

\* the tree routes a key to the left page or to its right neighbour; the
\* frame has room for one record more than max_size
LeafInsert(key, value) ==
  /\ \/ /\ leaf.size < LeafSlots
        /\ \A b \in KeysOf(sibling) : key < b
        /\ leaf' = Leaf_Insert(leaf, key, value)
        /\ UNCHANGED sibling
     \/ /\ sibling.size < LeafSlots
        /\ \A a \in KeysOf(leaf) : a < key
        /\ sibling' = Leaf_Insert(sibling, key, value)
        /\ UNCHANGED leaf
  /\ OnlyLeaves

LeafRemove(key) ==
  /\ \/ leaf' = Leaf_RemoveAndDeleteRecord(leaf, key) /\ UNCHANGED sibling
     \/ sibling' = Leaf_RemoveAndDeleteRecord(sibling, key) /\ UNCHANGED leaf
  /\ OnlyLeaves

\* split: the right neighbour is a new, empty page
LeafMoveHalfTo ==
  /\ leaf.size > Leaf_GetMinSize(leaf)
  /\ sibling.size = 0
  /\ LET m == Leaf_MoveHalfTo(leaf, sibling)
     IN leaf' = m.donor /\ sibling' = m.recipient
  /\ OnlyLeaves

\* merge of the right neighbour into the left page
LeafMoveAllTo ==
  /\ leaf.size + sibling.size <= LeafSlots
  /\ LET m == Leaf_MoveAllTo(sibling, leaf)
     IN sibling' = m.donor /\ leaf' = m.recipient
  /\ OnlyLeaves

\* borrow: the right neighbour's first record goes to the end of the left page
LeafMoveFirstToEndOf ==
  /\ sibling.size >= 1
  /\ leaf.size < LeafSlots
  /\ LET m == Leaf_MoveFirstToEndOf(sibling, leaf)
     IN sibling' = m.donor /\ leaf' = m.recipient
  /\ OnlyLeaves

\* borrow: the left page's last record goes to the front of the right neighbour
LeafMoveLastToFrontOf ==
  /\ leaf.size >= 1
  /\ sibling.size < LeafSlots
  /\ LET m == Leaf_MoveLastToFrontOf(leaf, sibling)
     IN leaf' = m.donor /\ sibling' = m.recipient
  /\ OnlyLeaves

NextLeaf ==
  \/ \E k \in LeafKeys, v \in Vals : LeafInsert(k, v)
  \/ \E k \in LeafKeys : LeafRemove(k)
  \/ LeafMoveHalfTo
  \/ LeafMoveAllTo
  \/ LeafMoveFirstToEndOf
  \/ LeafMoveLastToFrontOf

InitLeaf ==
  /\ InitPool(PoolSize)
  /\ NoTransactions
  /\ lru_trace = NoTrace({})
  /\ lru_run = NoRun
  /\ table = HT_New(BucketSize)
  /\ table_map = <<>>
  /\ leaf = Leaf_Init(LeafPageId, LeafMaxSize, SiblingPageId)
  /\ sibling = Leaf_Init(SiblingPageId, LeafMaxSize, INVALID_PAGE_ID)
  /\ lk = NoLatchHeld

SpecLeaf == InitLeaf /\ [][NextLeaf]_vars

LeafPages == {leaf, sibling}

\* C26: on a leaf page whose keys are in order, lookup(k) returns v right
\* after insert(k, v) of a key that was absent, and lookup(k) reports absent
\* right after remove(k), also when the removal leaves the page empty.
C26_InsertRemoveLookup ==
  \A p \in LeafPages : WellFormed(p) =>
    \A k \in LeafKeys :
      /\ \A v \in Vals :
           k \notin KeysOf(p) =>
             Leaf_Lookup(Leaf_Insert(p, k, v), k) = [found |-> TRUE, value |-> v]
      /\ ~Leaf_Lookup(Leaf_RemoveAndDeleteRecord(p, k), k).found

\* the page after insert / remove keeps its keys in order, and a call that
\* finds nothing to do leaves the page as it was
InsertKeepsOrder(p) ==
  \A k \in LeafKeys, v \in Vals :
    LET q == Leaf_Insert(p, k, v)
    IN /\ Sorted(q)
       /\ k \in KeysOf(p) => q = p
       /\ k \notin KeysOf(p) => q.size = p.size + 1 /\ KeysOf(q) = KeysOf(p) \cup {k}

RemoveKeepsOrder(p) ==
  \A k \in LeafKeys :
    LET q == Leaf_RemoveAndDeleteRecord(p, k)
    IN /\ WellFormed(q)
       /\ k \notin KeysOf(p) => q = p
       /\ k \in KeysOf(p) => q.size = p.size - 1 /\ KeysOf(q) = KeysOf(p) \ {k}

BothWellFormed(m) == WellFormed(m.donor) /\ WellFormed(m.recipient)

\* the four moves between the left page and its right neighbour; room(n) says
\* whether a recipient of n records may receive
MovesKeepOrder(halfFrom(_), room(_, _)) ==
  (WellFormed(sibling) /\ Sorted(leaf) /\ Below(leaf, sibling)) =>
    /\ (halfFrom(leaf) /\ sibling.size = 0)
         => BothWellFormed(Leaf_MoveHalfTo(leaf, sibling))
    /\ (WellFormed(leaf) /\ room(leaf, sibling.size))
         => BothWellFormed(Leaf_MoveAllTo(sibling, leaf))
    /\ (WellFormed(leaf) /\ sibling.size >= 1 /\ room(leaf, 1))
         => BothWellFormed(Leaf_MoveFirstToEndOf(sibling, leaf))
    /\ (WellFormed(leaf) /\ leaf.size >= 1 /\ room(sibling, 1))
         => BothWellFormed(Leaf_MoveLastToFrontOf(leaf, sibling))

HasRoom(r, n) == r.size + n <= r.max_size
FrameHasRoom(r, n) == r.size + n <= LeafSlots
HoldsMaxSize(p) == p.size = p.max_size
OverMinSize(p) == p.size > Leaf_GetMinSize(p)

C28_MoveHalf ==
  (Sorted(leaf) /\ leaf.size > Leaf_GetMinSize(leaf)
     /\ leaf.size <= leaf.max_size + 1 /\ sibling.size = 0) =>
    LET m == Leaf_MoveHalfTo(leaf, sibling)
    IN /\ Entries(m.recipient) = SubSeq(leaf.array, Leaf_GetMinSize(leaf) + 1, leaf.size)
       /\ Entries(m.donor) = SubSeq(leaf.array, 1, Leaf_GetMinSize(leaf))
       /\ m.recipient.size = leaf.size - Leaf_GetMinSize(leaf)

(***************************************************************************)
(* The lock manager's latches.  A call takes its map latch, then, holding  *)
(* it, the latch of the queue, releases the map latch, works on the queue  *)
(* and releases the queue's latch when it returns, throws or blocks in     *)
(* cv_.wait.  A notified waiter takes the queue's latch again for one turn *)
(* of its wait loop.  The detector takes both map latches and, holding     *)
(* them, each queue's latch in turn; for a victim it takes the latch of    *)
(* the queue it notifies.  A latch that is taken, used and released with   *)
(* no other latch requested in between is one step.                        *)
(***************************************************************************)
\* the calls of the latch runs: LockTable in these modes, LockRow in X,
\* UnlockTable, UnlockRow
LatchTableModes == {"IX", "X"}

LatchCalls ==
  [op : {"LockTable"}, lock_mode : LatchTableModes, res : Tables]
    \cup [op : {"LockRow"}, lock_mode : {"X"}, res : Rows]
    \cup [op : {"UnlockTable"}, lock_mode : {"S"}, res : Tables]
    \cup [op : {"UnlockRow"}, lock_mode : {"S"}, res : Rows]

CallKind(c) == IF c.op \in {"LockTable", "UnlockTable"} THEN "table" ELSE "row"

IsLockCall(c) == c.op \in {"LockTable", "LockRow"}

RunCall(L, t, c) ==
  CASE c.op = "LockTable" -> LockTable(L, t, c.lock_mode, c.res)
    [] c.op = "LockRow" -> LockRow(L, t, c.lock_mode, TableOf(c.res), c.res)
    [] c.op = "UnlockTable" -> UnlockTable(L, t, c.res)
    [] c.op = "UnlockRow" -> UnlockRow(L, t, TableOf(c.res), c.res)

\* the reasons LockTable and LockRow throw with before they take a latch
PreLatchReasons ==
  {"LOCK_SHARED_ON_READ_UNCOMMITTED", "LOCK_ON_SHRINKING",
   "ATTEMPTED_INTENTION_LOCK_ON_ROW", "TABLE_LOCK_NOT_PRESENT"}

ThrowsBeforeLatch(L, t, c) ==
  IsLockCall(c) /\ RunCall(L, t, c).err[t] \in PreLatchReasons

\* UnlockTable and UnlockRow throw under the map latch alone when the map
\* has no queue, UnlockTable also when the transaction holds row locks
ThrowsUnderMapLatch(L, t, c) ==
  \/ /\ c.op = "UnlockTable"
     /\ \/ ~L.table_q[c.res].present
        \/ \E r \in L.rls[t]["S"] \cup L.rls[t]["X"] : TableOf(r) = c.res
  \/ c.op = "UnlockRow" /\ ~L.row_q[c.res].present

\* the holders after the thread has released its map latch
MapLatchReleased_Kept(holder, kind) == holder

MapLatchReleased(holder, kind) == [holder EXCEPT ![MapLatch(kind)] = NoThread]

lmSet == <<txn_state, tls, rls, table_q, row_q, pc, req, notified, err>>

OnlyLatches == UNCHANGED <<txns, iso, lm_op, bpmVars, lruVars, htVars, leafVars>>

\* the call is made; the tests of the isolation level and of the table lock
\* come before any latch
LatchCall(t, c) ==
  /\ t \in txns /\ pc[t] = "idle" /\ lk.at[t] = "none"
  /\ IsLockCall(c) => Active(t)
  /\ IF ThrowsBeforeLatch(LmState, t, c)
     THEN SetLM(RunCall(LmState, t, c)) /\ UNCHANGED lk
     ELSE /\ lk' = [lk EXCEPT !.at[t] = "want_map", !.call[t] = c]
          /\ UNCHANGED lmSet
  /\ UNCHANGED detVars
  /\ OnlyLatches

TakeMapLatch(t) ==
  /\ lk.at[t] = "want_map"
  /\ lk.holder[MapLatch(CallKind(lk.call[t]))] = NoThread
  /\ lk' = [lk EXCEPT !.holder[MapLatch(CallKind(lk.call[t]))] = t, !.at[t] = "has_map"]
  /\ UNCHANGED <<lmSet, detVars>>
  /\ OnlyLatches

\* under the map latch: an unlock may throw (the map latch is released
\* first); a lock call puts the queue into the map when it is not there;
\* then the queue's latch is taken
TakeQueueLatch(t) ==
  LET c == lk.call[t]
      kind == CallKind(c)
  IN /\ lk.at[t] = "has_map"
     /\ IF ThrowsUnderMapLatch(LmState, t, c)
        THEN /\ SetLM(RunCall(LmState, t, c))
             /\ lk' = [lk EXCEPT !.holder = MapLatchReleased(@, kind),
                                 !.at[t] = "none", !.call[t] = NoCall]
        ELSE /\ lk.holder[QueueLatch(kind, c.res)] = NoThread
             /\ SetLM(SetQueue(LmState, kind, c.res,
                               [QueueOf(LmState, kind, c.res) EXCEPT !.present = TRUE]))
             /\ lk' = [lk EXCEPT !.holder[QueueLatch(kind, c.res)] = t, !.at[t] = "has_both"]
     /\ UNCHANGED detVars
     /\ OnlyLatches

ReleaseMapLatch(t) ==
  /\ lk.at[t] = "has_both"
  /\ lk' = [lk EXCEPT !.holder = MapLatchReleased(@, CallKind(lk.call[t])),
                      !.at[t] = "in_queue"]
  /\ UNCHANGED <<lmSet, detVars>>
  /\ OnlyLatches

\* the work on the queue, up to the return, the throw or cv_.wait: each of
\* them gives up the queue's latch
UnderQueueLatch(t) ==
  LET c == lk.call[t]
  IN /\ lk.at[t] = "in_queue"
     /\ SetLM(RunCall(LmState, t, c))
     /\ lk' = [lk EXCEPT !.holder[QueueLatch(CallKind(c), c.res)] = NoThread,
                         !.at[t] = "none", !.call[t] = NoCall]
     /\ UNCHANGED detVars
     /\ OnlyLatches

\* a notified waiter gets the queue's latch back, runs one turn of its wait
\* loop and returns or waits again
WakeUnderLatch(t) ==
  /\ t \in txns /\ pc[t] = "wait" /\ notified[t]
  /\ lk.holder[QueueLatch(req[t].kind, req[t].res)] = NoThread
  /\ SetLM(IF req[t].kind = "table" THEN WakeTable(LmState, t) ELSE WakeRow(LmState, t))
  /\ UNCHANGED <<lk, detVars>>
  /\ OnlyLatches

\* the detector's sleep ends (a round without a waiting request builds no
\* graph and is left out)
DetWakes ==
  /\ det_pc = "sleep"
  /\ \E t \in txns : pc[t] = "wait"
  /\ det_pc' = "want_table_map"
  /\ UNCHANGED <<lmSet, lk, det_todo, waits_for, txn_set, safe_set, map_txn_oid, map_txn_rid>>
  /\ OnlyLatches

DetTakesTableMap ==
  /\ det_pc = "want_table_map"
  /\ lk.holder[MapLatch("table")] = NoThread
  /\ lk' = [lk EXCEPT !.holder[MapLatch("table")] = DetectorThread]
  /\ det_pc' = "want_row_map"
  /\ UNCHANGED <<lmSet, det_todo, waits_for, txn_set, safe_set, map_txn_oid, map_txn_rid>>
  /\ OnlyLatches

DetTakesRowMap ==
  /\ det_pc = "want_row_map"
  /\ lk.holder[MapLatch("row")] = NoThread
  /\ lk' = [lk EXCEPT !.holder[MapLatch("row")] = DetectorThread]
  /\ det_pc' = "scan"
  /\ det_todo' = {<<"table", o>> : o \in {x \in Tables : table_q[x].present}}
                   \cup {<<"row", r>> : r \in {x \in AllRows : row_q[x].present}}
  /\ UNCHANGED <<lmSet, waits_for, txn_set, safe_set, map_txn_oid, map_txn_rid>>
  /\ OnlyLatches

\* one queue is scanned under its latch, the tables before the rows; after
\* the last one the row map latch and then the table map latch are released
DetScansLatched(kind, res) ==
  /\ det_pc = "scan"
  /\ <<kind, res>> \in det_todo
  /\ kind = "row" => \A q \in det_todo : q[1] = "row"
  /\ lk.holder[QueueLatch(kind, res)] = NoThread
  /\ det_todo' = det_todo \ {<<kind, res>>}
  /\ LET D == ScanQueue(DetState, kind, res, QueueOf(LmState, kind, res).request_queue,
                        1, {})
     IN IF det_todo' = {}
        THEN /\ DetectorGoesOn(D)
             /\ lk' = [lk EXCEPT !.holder =
                         MapLatchReleased(MapLatchReleased(@, "row"), "table")]
        ELSE InstallDet(D) /\ det_pc' = "scan" /\ UNCHANGED lk
  /\ UNCHANGED lmSet
  /\ OnlyLatches

\* one turn of "while (HasCycle(&txn_id))" up to DeleteNode
DetAborts ==
  /\ det_pc = "victims"
  /\ LET h == HasCycle(DetState)
     IN /\ txn_state' = [txn_state EXCEPT ![h.txn_id] = "ABORTED"]
        /\ InstallDet(DeleteNode([DetState EXCEPT !.safe_set = h.safe], h.txn_id))
        /\ lk' = [lk EXCEPT !.victim = h.txn_id]
  /\ det_pc' = "notify_table"
  /\ UNCHANGED <<tls, rls, table_q, row_q, pc, req, notified, err, det_todo>>
  /\ OnlyLatches

\* the table queue recorded for the victim is notified under its latch
DetNotifiesTable ==
  /\ det_pc = "notify_table"
  /\ LET oid == map_txn_oid[lk.victim]
     IN IF oid = NoResource THEN UNCHANGED notified
        ELSE /\ lk.holder[QueueLatch("table", oid)] = NoThread
             /\ notified' = NotifyAll(LmState, "table", oid).notified
  /\ det_pc' = "notify_row"
  /\ UNCHANGED <<txn_state, tls, rls, table_q, row_q, pc, req, err, lk, det_todo,
                 waits_for, txn_set, safe_set, map_txn_oid, map_txn_rid>>
  /\ OnlyLatches

\* the row queue recorded for the victim is notified under its latch; then
\* the loop tests HasCycle again
DetNotifiesRow ==
  /\ det_pc = "notify_row"
  /\ LET rid == map_txn_rid[lk.victim]
     IN IF rid = NoResource THEN UNCHANGED notified
        ELSE /\ lk.holder[QueueLatch("row", rid)] = NoThread
             /\ notified' = NotifyAll(LmState, "row", rid).notified
  /\ DetectorGoesOn(DetState)
  /\ lk' = [lk EXCEPT !.victim = INVALID_TXN_ID]
  /\ UNCHANGED <<txn_state, tls, rls, table_q, row_q, pc, req, err, det_todo>>
  /\ OnlyLatches

ThreadStep(t) ==
  \/ TakeMapLatch(t)
  \/ TakeQueueLatch(t)
  \/ ReleaseMapLatch(t)
  \/ UnderQueueLatch(t)
  \/ WakeUnderLatch(t)

DetThreadStep ==
  \/ DetTakesTableMap
  \/ DetTakesRowMap
  \/ \E k \in {"table", "row"}, r \in Tables \cup Rows : DetScansLatched(k, r)
  \/ DetAborts
  \/ DetNotifiesTable
  \/ DetNotifiesRow

NextLatch ==
  \/ \E t \in LMTxns, c \in LatchCalls : LatchCall(t, c)
  \/ \E t \in LMTxns : ThreadStep(t)
  \/ DetWakes
  \/ DetThreadStep

InitLatch ==
  /\ InitPool(PoolSize) /\ NoUnitRuns
  /\ InitLockManager(LMTxns, [t \in AllTxns |-> "REPEATABLE_READ"])

\* whether a step of the thread is possible
ThreadCanStep(t) ==
  \/ lk.at[t] = "want_map" /\ lk.holder[MapLatch(CallKind(lk.call[t]))] = NoThread
  \/ /\ lk.at[t] = "has_map"
     /\ \/ ThrowsUnderMapLatch(LmState, t, lk.call[t])
        \/ lk.holder[QueueLatch(CallKind(lk.call[t]), lk.call[t].res)] = NoThread
  \/ lk.at[t] \in {"has_both", "in_queue"}
  \/ /\ t \in txns /\ pc[t] = "wait" /\ notified[t]
     /\ lk.holder[QueueLatch(req[t].kind, req[t].res)] = NoThread

DetCanStep ==
  \/ det_pc = "want_table_map" /\ lk.holder[MapLatch("table")] = NoThread
  \/ det_pc = "want_row_map" /\ lk.holder[MapLatch("row")] = NoThread
  \/ det_pc = "scan" /\ \E q \in det_todo :
       /\ q[1] = "row" => \A x \in det_todo : x[1] = "row"
       /\ lk.holder[QueueLatch(q[1], q[2])] = NoThread
  \/ det_pc = "victims"
  \/ /\ det_pc = "notify_table"
     /\ map_txn_oid[lk.victim] # NoResource
          => lk.holder[QueueLatch("table", map_txn_oid[lk.victim])] = NoThread
  \/ /\ det_pc = "notify_row"
     /\ map_txn_rid[lk.victim] # NoResource
          => lk.holder[QueueLatch("row", map_txn_rid[lk.victim])] = NoThread

\* every thread goes on running, and a thread that asks for a latch which is
\* free again and again gets it in the end (strong fairness of each thread's
\* steps, the enabling conditions written out)
LatchFairness ==
  /\ \A t \in LMTxns : (<>[](~ThreadCanStep(t))) \/ ([]<><<ThreadStep(t)>>_vars)
  /\ (<>[](~DetCanStep)) \/ ([]<><<DetThreadStep>>_vars)

SpecLatch == InitLatch /\ [][NextLatch]_vars /\ LatchFairness

HoldsQueueLatch(holder, th) == \E l \in LatchIds : l[2] # NoResource /\ holder[l] = th

HoldsAnyLatch(holder, th) == \E l \in LatchIds : holder[l] = th

Takes(th, l) == lk.holder[l] # th /\ lk'.holder[l] = th

\* the thread has asked for a latch and does not have it yet
Blocked(t) ==
  \/ lk.at[t] \in {"want_map", "has_map"}
  \/ t \in txns /\ pc[t] = "wait" /\ notified[t]

LatchThreads == LMTxns \cup {DetectorThread}

VictimTxns == 1 .. MaxVictimTxns
VictimRows == 1 .. NumVictimRows

\* the lock manager after LockTable(t, IX, 1) of the transactions ts, in
\* ascending order, on the state L
RECURSIVE AfterLockTableIX(_, _)
AfterLockTableIX(L, ts) ==
  IF ts = {} THEN L
  ELSE AfterLockTableIX(LockTable(L, Min(ts), "IX", 1), ts \ {Min(ts)})

NewLockManager ==
  [iso |-> [t \in AllTxns |-> "REPEATABLE_READ"],
   txn_state |-> [t \in AllTxns |-> "GROWING"],
   tls |-> [t \in AllTxns |-> [m \in ModeSet |-> {}]],
   rls |-> [t \in AllTxns |-> [m \in RowModes |-> {}]],
   table_q |-> [o \in Tables |-> EmptyQueue],
   row_q |-> [r \in AllRows |-> EmptyQueue],
   pc |-> [t \in AllTxns |-> "idle"],
   req |-> [t \in AllTxns |-> NoReq],
   notified |-> [t \in AllTxns |-> FALSE],
   err |-> [t \in AllTxns |-> "none"]]

InitVictim ==
  /\ InitPool(PoolSize) /\ NoUnitRuns
  /\ txns = VictimTxns
  /\ LET L == AfterLockTableIX(NewLockManager, VictimTxns)
     IN /\ iso = L.iso /\ txn_state = L.txn_state /\ tls = L.tls /\ rls = L.rls
        /\ table_q = L.table_q /\ row_q = L.row_q /\ pc = L.pc /\ req = L.req
        /\ notified = L.notified /\ err = L.err
  /\ lm_op = NoLmOp
  /\ DetectorCleared

NextVictim ==
  \/ \E t \in VictimTxns, r \in VictimRows : LockRowCall(t, "X", r)
  \/ \E t \in VictimTxns : WakeUp(t)
  \/ DetectorStart
  \/ \E k \in {"table", "row"}, r \in Tables \cup VictimRows : DetectorScan(k, r)
  \/ DetectorVictim

SpecVictim == InitVictim /\ [][NextVictim]_vars

\* the transactions that t waits for over one or more edges which stay
\* within the transactions of "among"
RECURSIVE ReachWithin(_, _, _)
ReachWithin(wf, among, seen) ==
  LET more == {u \in among : \E s \in seen : wf[s].has /\ u \in wf[s].to} \ seen
  IN IF more = {} THEN seen ELSE ReachWithin(wf, among, seen \cup more)

WaitsWithin(wf, among, t) ==
  IF t \in among /\ wf[t].has
  THEN ReachWithin(wf, among, wf[t].to \cap among)
  ELSE {}

\* t is the largest member of some cycle of the graph
LargestOfACycle(wf, t) == t \in WaitsWithin(wf, 1 .. t, t)

HasACycle(wf) == \E t \in AllTxns : t \in WaitsWithin(wf, AllTxns, t)

\* the graph that the loop "while (HasCycle(&txn_id))" leaves when it
\* starts with the members D
RECURSIVE AfterVictimLoop(_)
AfterVictimLoop(D) ==
  LET h == HasCycle(D)
  IN IF h.found
     THEN AfterVictimLoop(DeleteNode([D EXCEPT !.safe_set = h.safe], h.txn_id))
     ELSE D.waits_for

\* C30: whenever the detector's loop finds a cycle, the transaction it names
\* is the largest member of a cycle of the waits-for graph, and the graph
\* the loop leaves behind has no cycle.
C30_VictimOnCycle ==
  det_pc = "victims" =>
    /\ LargestOfACycle(waits_for, HasCycle(DetState).txn_id)
    /\ ~HasACycle(AfterVictimLoop(DetState))

(***************************************************************************)
(* Cancellation of a waiter                                                *)
(***************************************************************************)
\* the transactions other than t that are blocked in cv_.wait on the queue
OtherWaiters(kind, res, t) ==
  {u \in txns \ {t} : pc[u] = "wait" /\ req[u].kind = kind /\ req[u].res = res}

\* what the step does when it ends the wait of an aborted transaction: the
\* request is gone from the queue, which is otherwise as it was, the call
\* has returned without a grant (no lock set of the transaction has
\* changed, the state is still ABORTED) and every other waiter of the queue
\* has been notified
CancelStep(t) ==
  (t \in txns /\ pc[t] = "wait" /\ txn_state[t] = "ABORTED" /\ pc'[t] # "wait") =>
    LET kind == req[t].kind
        res == req[t].res
        rq == RequestQueue(kind, res)
    IN /\ notified[t]
       /\ ~rq[RequestPos(rq, t)].granted
       /\ QueueOf([table_q |-> table_q', row_q |-> row_q'], kind, res).request_queue
            = RemoveAt(rq, RequestPos(rq, t))
       /\ pc'[t] = "idle"
       /\ txn_state'[t] = "ABORTED"
       /\ tls'[t] = tls[t] /\ rls'[t] = rls[t]
       /\ \A u \in OtherWaiters(kind, res, t) : notified'[u]

\* C31: a waiter of LockTable or LockRow (new request or upgrade) that has
\* been set to ABORTED leaves its wait only after a broadcast of its queue,
\* and then removes its own request, broadcasts the queue and returns
\* false: it is never marked granted and its lock sets gain no entry.
C31_Cancellation == [][\A t \in AllTxns : CancelStep(t)]_vars

\* C31 witness: an aborted upgrader has been notified and is about to run
\* its turn of the wait loop.
C31_Witness ==
  \E t \in txns :
    /\ pc[t] = "wait" /\ notified[t] /\ txn_state[t] = "ABORTED"
    /\ req[t].upgrade

(***************************************************************************)
(* Granted requests form a prefix                                          *)
(***************************************************************************)
AllQueues == {<<"table", o>> : o \in Tables} \cup {<<"row", r>> : r \in AllRows}

\* when GrantLock gives true for the waiting request of t, every granted
\* request of the queue stands ahead of it and is compatible with it
GrantComparesAll(rq, t) ==
  LET me == RequestPos(rq, t)
  IN (me # 0 /\ ~rq[me].granted /\ GrantLock(rq, t)) =>
       \A j \in 1 .. Len(rq) :
         rq[j].granted => (j < me /\ Compatible(rq[j].lock_mode, rq[me].lock_mode))

\* C32: in every queue the granted requests come before all requests that
\* are not granted, so that GrantLock, which looks only at the requests
\* ahead of the candidate, has compared the candidate with every granted
\* request when it returns true.
C32_GrantedPrefix ==
  \A q \in AllQueues :
    /\ GrantedPrefix(RequestQueue(q[1], q[2]))
    /\ \A t \in AllTxns : GrantComparesAll(RequestQueue(q[1], q[2]), t)

\* C32 witness: GrantLock gives true for a waiting request that has a
\* granted request ahead of it and another waiting request behind it.
C32_Witness ==
  \E q \in AllQueues, t \in AllTxns :
    LET rq == RequestQueue(q[1], q[2])
        me == RequestPos(rq, t)
    IN /\ me > 1 /\ me < Len(rq)
       /\ ~rq[me].granted /\ GrantLock(rq, t)

(***************************************************************************)
(* The upgrading marker                                                    *)
(***************************************************************************)
\* t waits in the queue for an upgrade: its request there is not granted
\* and was put there by the upgrade path
WaitsForUpgrade(kind, res, t) ==
  LET rq == RequestQueue(kind, res)
  IN /\ t \in txns /\ pc[t] = "wait"
     /\ req[t].kind = kind /\ req[t].res = res /\ req[t].upgrade
     /\ RequestPos(rq, t) # 0 /\ ~rq[RequestPos(rq, t)].granted

\* C33: whenever the upgrading marker of a queue (table or row) names a
\* transaction, that transaction has an upgrade request in the queue that
\* is not granted; so after an upgrade wait has ended, by a grant or by the
\* abort of the waiter, the marker is "none" again and does not refuse a
\* later upgrade with UPGRADE_CONFLICT.
C33_MarkerNamesUpgrader ==
  \A q \in AllQueues :
    LET marker == QueueOf(LmState, q[1], q[2]).upgrading
    IN marker # INVALID_TXN_ID => WaitsForUpgrade(q[1], q[2], marker)

(***************************************************************************)
(* Victims and genuine deadlocks                                           *)
(***************************************************************************)
Waiting == {t \in txns : pc[t] = "wait"}

\* the waiting request of m cannot be granted while s keeps its request:
\* GrantLock refuses m for a granted request of s in a mode that is not
\* compatible, and for a request of s that waits ahead of it
Blocks(s, m) ==
  LET rq == RequestQueue(req[m].kind, req[m].res)
      me == RequestPos(rq, m)
  IN \E j \in 1 .. Len(rq) :
       /\ rq[j].txn_id = s
       /\ \/ rq[j].granted /\ ~Compatible(rq[j].lock_mode, rq[me].lock_mode)
          \/ ~rq[j].granted /\ j < me

\* the largest set of waiting transactions each of which is blocked by
\* another member of the set
RECURSIVE DeadlockedWithin(_)
DeadlockedWithin(S) ==
  LET S2 == {m \in S : \E s \in S \ {m} : Blocks(s, m)}
  IN IF S2 = S THEN S ELSE DeadlockedWithin(S2)

Deadlocked == DeadlockedWithin(Waiting)

\* C34: the transaction that the detector is about to set to ABORTED
\* belongs to a set of waiting transactions in which every member's request
\* is blocked by another member (a genuine deadlock).
C34_VictimDeadlocked ==
  det_pc = "victims" => HasCycle(DetState).txn_id \in Deadlocked

(***************************************************************************)
(* Lock sets and queues                                                    *)
(***************************************************************************)
\* the queue holds a granted request of t in the mode
GrantedIn(rq, t, lock_mode) ==
  \E i \in 1 .. Len(rq) :
    rq[i].txn_id = t /\ rq[i].granted /\ rq[i].lock_mode = lock_mode

RequestsOf(rq, t) == {i \in 1 .. Len(rq) : rq[i].txn_id = t}

\* C35: while a transaction is not inside a call of the lock manager, its
\* lock sets agree with the queues: a table is in its set of mode M exactly
\* when the table's queue holds its granted request of mode M, a row is in
\* its S / X row set exactly when the row's queue holds its granted request
\* of that mode; and a transaction has at most one request in a queue.
C35_SetsAgreeWithQueues ==
  /\ \A t \in txns :
       pc[t] = "idle" =>
         /\ \A o \in Tables, m \in ModeSet :
              o \in tls[t][m] <=> GrantedIn(table_q[o].request_queue, t, m)
         /\ \A r \in AllRows, m \in RowModes :
              r \in rls[t][m] <=> GrantedIn(row_q[r].request_queue, t, m)
  /\ \A q \in AllQueues, t \in AllTxns :
       Cardinality(RequestsOf(RequestQueue(q[1], q[2]), t)) <= 1

\* C35 witness: a transaction whose table upgrade was cancelled is outside
\* any call, holds a row lock and has neither a table lock nor a request
\* in the table's queue, while the other transaction holds both.
C35_Witness ==
  \E t \in txns, u \in txns, o \in Tables, r \in Rows :
    /\ t # u /\ pc[t] = "idle" /\ pc[u] = "idle"
    /\ txn_state[t] = "ABORTED" /\ err[t] = "none"
    /\ r \in rls[t]["S"] /\ \A m \in ModeSet : o \notin tls[t][m]
    /\ RequestsOf(table_q[o].request_queue, t) = {}
    /\ r \in rls[u]["S"] /\ o \in tls[u]["SIX"]

(***************************************************************************)
(* The three conditions of a frame                                         *)
(***************************************************************************)
\* the frame holds a resident page: the page table maps a page id to it
FrameResident(f) == \E p \in HT_Keys(page_table) : FrameOf(p) = f

TimesOnFreeList(f) == Cardinality({i \in 1 .. Len(free_list) : free_list[i] = f})

IsFree(f) ==
  /\ TimesOnFreeList(f) = 1 /\ ~FrameResident(f)
  /\ pages[f].page_id = INVALID_PAGE_ID /\ pages[f].pin_count = 0

IsPinned(f) ==
  /\ TimesOnFreeList(f) = 0 /\ FrameResident(f)
  /\ pages[f].pin_count > 0 /\ ~LRU_IsEvictable(replacer, f)

IsEvictable(f) ==
  /\ TimesOnFreeList(f) = 0 /\ FrameResident(f)
  /\ pages[f].pin_count = 0 /\ LRU_IsEvictable(replacer, f)

\* C36: every frame is on the free list (once, page_id INVALID, pin_count
\* 0), or holds a resident page with pin_count > 0 and is not evictable, or
\* holds a resident page with pin_count 0 and is evictable, and in one of
\* the three only; and new_page succeeds whenever the free list is not
\* empty or a resident page has pin_count 0.
C36_FrameConditions ==
  /\ \A f \in Frames :
       Cardinality({c \in {"free", "pinned", "evictable"} :
                      \/ c = "free" /\ IsFree(f)
                      \/ c = "pinned" /\ IsPinned(f)
                      \/ c = "evictable" /\ IsEvictable(f)}) = 1
  /\ (free_list # <<>> \/ \E f \in Frames : FrameResident(f) /\ pages[f].pin_count = 0)
       => NewPgImp(BpmState).frame # NoFrame

(***************************************************************************)
(* The pool's use of the replacer.  AddFrame (166-172) calls RecordAccess  *)
(* and SetEvictable(false) on the frame it installs, EvictFrame (174-183)  *)
(* calls Remove on the frame Evict just gave, DeletePgImp (143-150) calls  *)
(* Remove on the frame of an unpinned page.                                *)
(***************************************************************************)
TrackedFrames == {f \in Frames : LRU_InMap(replacer, f)}

ResidentFrames == {f \in Frames : FrameResident(f)}

\* the frame a call installed a page in is tracked with one access counted
InstalledFresh(r) ==
  r.frame # NoFrame =>
    /\ LRU_InMap(r.s.replacer, r.frame)
    /\ LRU_Entry(r.s.replacer, r.frame).cnt_ = 1
    /\ ~LRU_Entry(r.s.replacer, r.frame).evictable_

\* RecordAccess of AddFrame is never dropped: a frame installed by new_page
\* or by a fetch that missed is tracked afterwards, counted from zero
RecordAccessKept ==
  /\ InstalledFresh(NewPgImp(BpmState))
  /\ \A p \in PageIds :
       ~HT_Contains(page_table, p) => InstalledFresh(FetchPgImp(BpmState, p))

\* Remove's "frame should be evictable" holds at both call sites
RemoveAssertHolds ==
  /\ \A p \in PageIds :
       (HT_Contains(page_table, p) /\ pages[HT_Find(page_table, p)].pin_count = 0)
         => \/ ~LRU_InMap(replacer, HT_Find(page_table, p))
            \/ LRU_IsEvictable(replacer, HT_Find(page_table, p))
  /\ (free_list = <<>> /\ LRU_Evict(replacer).ok)
       => ~LRU_InMap(LRU_Evict(replacer).r, LRU_Evict(replacer).frame_id)

\* C37: under the pool's use of the replacer the tracked frames are the
\* resident frames (those the page table maps a page to), RecordAccess on a
\* frame being installed is never dropped, Remove is called only on an
\* untracked or an evictable frame, and an evicted or deleted frame comes
\* back with its access count started from zero
C37_TrackedAreResident ==
  /\ TrackedFrames = ResidentFrames
  /\ RecordAccessKept
  /\ RemoveAssertHolds

(***************************************************************************)
(* The shape of the replacer after any calls of RecordAccess,              *)
(* SetEvictable, Evict and Remove.                                         *)
(***************************************************************************)
TimesListed(list, frame_id) ==
  Cardinality({i \in 1 .. Len(list) : list[i].key_ = frame_id})

EvictableFrames == {f \in LruFrameIds : LRU_IsEvictable(replacer, f)}

\* frame_id is in one list, once: history_list_ exactly when cnt_ < k_
InOneList(frame_id) ==
  /\ TimesListed(replacer.history_list, frame_id)
       + TimesListed(replacer.cache_list, frame_id) = 1
  /\ TimesListed(replacer.history_list, frame_id) = 1
       <=> LRU_Entry(replacer, frame_id).cnt_ < replacer.k
  /\ LRU_Entry(replacer, frame_id).cnt_ >= 1

\* C38: Size() is the number of tracked frames that are evictable; every
\* tracked frame is in exactly one list, the history list iff it has fewer
\* than k_ accesses; SetEvictable of an untracked frame changes nothing, and
\* Evict with no evictable frame (empty lists included) changes nothing and
\* gives false
C38_ReplacerShape ==
  /\ LRU_Size(replacer) = Cardinality(EvictableFrames)
  /\ \A f \in LruFrameIds : LRU_InMap(replacer, f) => InOneList(f)
  /\ \A i \in 1 .. Len(replacer.history_list) :
       replacer.history_list[i].key_ \in LruFrameIds
  /\ \A i \in 1 .. Len(replacer.cache_list) :
       replacer.cache_list[i].key_ \in LruFrameIds
  /\ \A f \in LruFrameIds, b \in BOOLEAN :
       ~LRU_InMap(replacer, f) => LRU_SetEvictable(replacer, f, b) = replacer
  /\ EvictableFrames = {} =>
       LRU_Evict(replacer) = [ok |-> FALSE, frame_id |-> NoFrame, r |-> replacer]

\* an evictable frame in the cache list, a non-evictable one in the history
\* list and an untracked one
C38_Witness ==
  /\ \E f, g, h \in LruFrameIds :
       /\ ListPos(replacer.cache_list, f) # 0 /\ LRU_IsEvictable(replacer, f)
       /\ ListPos(replacer.history_list, g) # 0 /\ ~LRU_IsEvictable(replacer, g)
       /\ ~LRU_InMap(replacer, h)
  /\ LRU_Size(replacer) = 1

(***************************************************************************)
(* RecordAccess on a full replacer (51-56, IsFull at 120).  The assertion  *)
(* at 47 admits the frame ids below replacer_size_ only; FirstIdPastRange  *)
(* is the id a build without the assertion would let through.              *)
(***************************************************************************)
FirstIdPastRange == replacer.replacer_size

\* RecordAccess counted one more access of a tracked frame and touched
\* nothing else of it
Counted(r, frame_id) ==
  /\ LRU_InMap(r, frame_id)
  /\ LRU_Entry(r, frame_id).cnt_ = LRU_Entry(replacer, frame_id).cnt_ + 1
  /\ LRU_Entry(r, frame_id).evictable_ = LRU_Entry(replacer, frame_id).evictable_
  /\ r.curr_size = replacer.curr_size
  /\ \A g \in LruFrameIds \ {frame_id} :
       /\ LRU_InMap(r, g) = LRU_InMap(replacer, g)
       /\ LRU_InMap(replacer, g) => LRU_Entry(r, g) = LRU_Entry(replacer, g)

\* a full replacer tracks every frame id the assertion admits
FullTracksAll ==
  LRU_IsFull(replacer) =>
    /\ LRU_Size(replacer) = replacer.replacer_size
    /\ \A f \in LruFrameIds : LRU_InMap(replacer, f)

\* C39: RecordAccess of an untracked frame on a full replacer admits nothing
\* and leaves the replacer as it is; RecordAccess of a tracked frame is
\* counted whether or not the replacer is full
C39_FullReplacer ==
  /\ \A f \in LruFrameIds \cup {FirstIdPastRange} :
       (LRU_IsFull(replacer) /\ ~LRU_InMap(replacer, f))
         => LRU_RecordAccess(replacer, f) = replacer
  /\ \A f \in LruFrameIds :
       LRU_InMap(replacer, f) => Counted(LRU_RecordAccess(replacer, f), f)

\* a full replacer with a frame in each list: the next access of either is
\* counted, the frame id past the range is untracked
C39_Witness ==
  /\ LRU_IsFull(replacer)
  /\ ~LRU_InMap(replacer, FirstIdPastRange)
  /\ replacer.history_list # <<>>
  /\ replacer.cache_list # <<>>

(***************************************************************************)
(* One Insert of the hash table, split by split: the turns of the loop     *)
(* "while (true)" (110-134) that did not store the record.  Each gives     *)
(* [doubled, before, bi, after]: whether the directory was doubled, the    *)
(* table before RedistributeBucket (the directory already doubled), the    *)
(* bucket that is split and the table after RedistributeBucket.            *)
(***************************************************************************)
RECURSIVE InsertSplits(_, _)
InsertSplits(ht, key) ==
  LET bi == ht.dir[HT_IndexOf(ht, key) + 1]
      cur_bucket == ht.buckets[bi]
  IN IF Bucket_CanInsert(ht, cur_bucket, key) THEN <<>>
     ELSE LET cur_depth == cur_bucket.depth
              ht1 == IF ht.global_depth = cur_depth
                     THEN [ht EXCEPT !.dir = @ \o @, !.global_depth = @ + 1]
                     ELSE ht
              ht2 == IF ht1.global_depth > cur_depth
                     THEN HT_RedistributeBucket(ht1, bi)
                     ELSE ht1
          IN <<[doubled |-> ht.global_depth = cur_depth, before |-> ht1,
                bi |-> bi, after |-> ht2]>> \o InsertSplits(ht2, key)

\* the records of a bucket as a set
Records(b) == SeqToSet(b.list)

\* one split: one more bucket, the sibling, of depth old depth + 1, holding
\* exactly the records of the split bucket whose hash has bit old depth set;
\* the split bucket keeps the others; no other bucket is touched
SplitAsClaimed(s) ==
  LET old == s.before.buckets[s.bi]
      ni == Len(s.before.buckets) + 1
      moved == {kv \in Records(old) : TestKBit(old.depth, Hash(kv[1]))}
  IN /\ Len(s.after.buckets) = ni
     /\ s.after.num_buckets = s.before.num_buckets + 1
     /\ s.after.buckets[ni].depth = old.depth + 1
     /\ s.after.buckets[s.bi].depth = old.depth + 1
     /\ Records(s.after.buckets[ni]) = moved
     /\ Len(s.after.buckets[ni].list) = Cardinality(moved)
     /\ Records(s.after.buckets[s.bi]) = Records(old) \ moved
     /\ Len(s.after.buckets[s.bi].list) = Len(old.list) - Cardinality(moved)
     /\ \A j \in 1 .. (ni - 1) : j # s.bi => s.after.buckets[j] = s.before.buckets[j]
     /\ s.after.global_depth = s.before.global_depth
     /\ Len(s.after.dir) = Len(s.before.dir)

\* the directory is doubled exactly when the bucket to split is as deep as
\* the directory
DoubledAsClaimed(ht, s) ==
  IF s.doubled
  THEN /\ s.before.global_depth = ht.global_depth + 1
       /\ s.before.dir = ht.dir \o ht.dir
  ELSE s.before = ht

\* the table a turn of the loop starts from
TurnStart(ht, tr, i) == IF i = 1 THEN ht ELSE tr[i - 1].after

\* C40: one Insert may double the directory and split more than once; it
\* ends with the record stored and every other record kept; each split adds
\* one sibling bucket of depth old depth + 1 that receives exactly the
\* records whose hash has bit old depth set, and adds one to num_buckets
C40_InsertSplits ==
  \A k \in TableKeys, v \in Vals :
    LET tr == InsertSplits(table, k)
        r == HT_Insert(table, k, v)
    IN /\ HT_Contains(r, k) /\ HT_Find(r, k) = v
       /\ \A k2 \in TableKeys \ {k} :
            /\ HT_Contains(r, k2) = HT_Contains(table, k2)
            /\ HT_Contains(table, k2) => HT_Find(r, k2) = HT_Find(table, k2)
       /\ \A i \in 1 .. Len(tr) :
            /\ SplitAsClaimed(tr[i])
            /\ DoubledAsClaimed(TurnStart(table, tr, i), tr[i])
       /\ r.num_buckets = table.num_buckets + Len(tr)
       /\ Len(r.buckets) = Len(table.buckets) + Len(tr)
       /\ Len(tr) <= HashBits

\* a table whose next Insert doubles the directory twice and splits twice
C40_Witness ==
  \E k \in TableKeys :
    /\ Len(InsertSplits(table, k)) >= 2
    /\ InsertSplits(table, k)[1].doubled
    /\ InsertSplits(table, k)[2].doubled


====
